---------------------------- MODULE Spec2Model ----------------------------
(***************************************************************************)
(* A model of the CCF python core (src/ccf-py/python/ccf_core):            *)
(*   - _Accumulator and CoherenceFieldPy   (coherence_field_py.py)         *)
(*   - classify_phase                      (social_phase.py)               *)
(*   - CcfPersistence.save and load        (persistence.py)                *)
(*   - TextContextKey.context_hash         (text_context_key.py)           *)
(*   - the 30-turn journey _run_turns      (tests/journeys)                *)
(*                                                                         *)
(* Reals are fixed-point integers in millionths: ONE stands for 1.0.  The  *)
(* decimal coefficients of the source (0.12, 0.3, 0.15, 0.7) are applied   *)
(* as exact fractions; every input set below is chosen so that each        *)
(* product is a whole number of millionths, hence no rounding occurs.      *)
(***************************************************************************)
EXTENDS Integers, Sequences, FiniteSets, TLC

VARIABLES
    acc,              \* a lone _Accumulator: coherence, earned_floor, interaction_count
    curiosity_drive,  \* CoherenceFieldPy.curiosity_drive
    recovery_rate,    \* CoherenceFieldPy.recovery_rate
    accumulators,     \* CoherenceFieldPy._accumulators: hash -> accumulator or NoAcc
    phase,            \* the previous phase the caller carries from tick to tick
    run_instant,      \* _run_turns: its instant argument
    run_curiosity,    \* _run_turns: its curiosity argument
    phases,           \* _run_turns: the phase after each turn so far
    files,            \* the directory of the state file: name -> content or Absent
    pc,               \* CcfPersistence.save: where the call stands
    state,            \* CcfPersistence.save: the snapshot being written
    tmp_path,         \* CcfPersistence.save: the name mkstemp returned
    exc,              \* CcfPersistence.save: the step whose error is in flight
    before,           \* what the destination held when save was called
    save_accumulators,\* the accumulators dict the caller passes to save
    save_personality, \* the personality dict the caller passes to save
    active_context,   \* CcfOllama._active_context: the key of the last chat, or NoContext
    last_instant,     \* CcfOllama._last_instant
    _turn_count,      \* CcfOllama._turn_count
    auto_save,        \* CcfOllama.auto_save
    tm_hour,          \* time.localtime().tm_hour: the local hour of the wall clock
    decay_recovery,   \* the recovery a caller repeats negative_interaction with, or NoRepeat
    journey_message,  \* the message a caller repeats chat with, or None
    ticks,            \* the phases a caller feeding classify_phase its own result got back
    writers,          \* two callers of CcfPersistence.save at once: where each one's call stands
    call              \* the last call made: its name, arguments and return value

vars == <<acc, curiosity_drive, recovery_rate, accumulators, phase,
          run_instant, run_curiosity, phases,
          files, pc, state, tmp_path, exc, before,
          save_accumulators, save_personality,
          active_context, last_instant, _turn_count, auto_save,
          tm_hour, decay_recovery, journey_message, ticks, writers, call>>

accVars == <<acc>>
fieldVars == <<curiosity_drive, recovery_rate, accumulators>>
phaseVars == <<phase>>
runVars == <<run_instant, run_curiosity, phases>>
saveVars == <<files, pc, state, tmp_path, exc, before>>
argVars == <<save_accumulators, save_personality>>
ollamaVars == <<active_context, last_instant, _turn_count, auto_save>>
driverVars == <<tm_hour, decay_recovery, journey_message, ticks, writers>>

\* what each component leaves alone
accOthers == <<fieldVars, phaseVars, runVars, saveVars, argVars,
                 ollamaVars, driverVars>>
fieldOthers == <<accVars, phaseVars, runVars, saveVars, argVars,
                 ollamaVars, driverVars>>
classifyOthers == <<accVars, fieldVars, runVars, saveVars, argVars,
                 ollamaVars, driverVars>>
runOthers == <<fieldVars, saveVars, argVars, ollamaVars, driverVars>>
saveOthers == <<accVars, fieldVars, phaseVars, runVars, argVars, ollamaVars, driverVars, call>>

---------------------------------------------------------------------------
(* Fixed-point numbers *)

ONE == 1000000

Min(a, b) == IF a <= b THEN a ELSE b
Max(a, b) == IF a >= b THEN a ELSE b

\* k hundredths, as a fixed-point number
Cent(k) == k * (ONE \div 100)

\* Bounds of the model
\* most interactions recorded on the lone accumulator
MaxOps == 30
\* most interactions recorded before a caller starts to repeat one
MaxBuild == 8
\* most chat() calls made on one wrapper with arbitrary arguments
MaxChats == 4
\* most outcomes recorded on one wrapper with arbitrary arguments
MaxOutcomes == 3
\* most ticks a caller feeds classify_phase its own result for
MaxTicks == 4
\* the longest list of known keys nearest_contexts is given
MaxKnown == 3
\* most interactions recorded in one CoherenceFieldPy
MaxCount == 9
\* most turns of one _run_turns journey
MaxTurns == 30
\* the snapshots a save may be given: 1..MaxSnapshot
MaxSnapshot == 3
\* the writes json.dump needs to put one document into the file
Chunks == 2

\* Input sets: values of curiosity, recovery and instant in [0,1]
CuriosityVals == {0, Cent(50), ONE}
RecoveryVals == {0, Cent(50), ONE}
InstantVals == {0, Cent(10), Cent(50), Cent(80), ONE}
\* Inputs of classify_phase: values on and next to every threshold
CoherenceTicks == {0, Cent(10), Cent(27), Cent(28), Cent(30), Cent(32), Cent(33),
                   Cent(34), Cent(35), Cent(44), Cent(45), Cent(54), Cent(55),
                   Cent(75), ONE}
InstantTicks == {0, Cent(5), Cent(10), Cent(19), Cent(20), Cent(29), Cent(30),
                 Cent(50), ONE}
Hashes == {0, 1}

NoCall == [name |-> "none", args |-> <<>>, ret |-> 0]

---------------------------------------------------------------------------
(* _Accumulator *)

NoAcc == [absent |-> TRUE]

\* _Accumulator.__init__ with its defaults
NewAccumulator == [coherence |-> 0, earned_floor |-> 0, interaction_count |-> 0]

\* positive_interaction with the floor capped at the coherence held before the call
positive_interaction_stale_cap(a, curiosity) ==
    LET gain == (curiosity * 12) \div 100
    IN [coherence |-> Min(ONE, a.coherence + gain),
        earned_floor |-> Min(a.coherence, a.earned_floor + (gain * 3) \div 10),
        interaction_count |-> a.interaction_count + 1]

\* positive_interaction without the cap of coherence at 1.0
positive_interaction_uncapped(a, curiosity) ==
    LET gain == (curiosity * 12) \div 100
        coherence == a.coherence + gain
    IN [coherence |-> coherence,
        earned_floor |-> Min(coherence, a.earned_floor + (gain * 3) \div 10),
        interaction_count |-> a.interaction_count + 1]

\* positive_interaction that raises the floor by the whole gain
positive_interaction_floor_at_gain(a, curiosity) ==
    LET gain == (curiosity * 12) \div 100
        coherence == Min(ONE, a.coherence + gain)
    IN [coherence |-> coherence,
        earned_floor |-> Min(coherence, a.earned_floor + gain),
        interaction_count |-> a.interaction_count + 1]

\* _Accumulator.positive_interaction(curiosity)
positive_interaction(a, curiosity) ==
    LET gain == (curiosity * 12) \div 100
        coherence == Min(ONE, a.coherence + gain)
        earned_floor == Min(coherence, a.earned_floor + (gain * 3) \div 10)
    IN [coherence |-> coherence,
        earned_floor |-> earned_floor,
        interaction_count |-> a.interaction_count + 1]

\* negative_interaction that decays without stopping at the earned floor
negative_interaction_unfloored(a, recovery) ==
    LET decay == (15 * (ONE - recovery)) \div 100
    IN [coherence |-> Max(0, a.coherence - decay),
        earned_floor |-> Min(a.earned_floor, Max(0, a.coherence - decay)),
        interaction_count |-> a.interaction_count + 1]

\* negative_interaction whose decay grows with recovery instead of shrinking
negative_interaction_inverted(a, recovery) ==
    LET decay == (15 * recovery) \div 100
    IN [coherence |-> Max(a.earned_floor, a.coherence - decay),
        earned_floor |-> a.earned_floor,
        interaction_count |-> a.interaction_count + 1]

\* negative_interaction that does not count itself
negative_interaction_uncounted(a, recovery) ==
    LET decay == (15 * (ONE - recovery)) \div 100
    IN [coherence |-> Max(a.earned_floor, a.coherence - decay),
        earned_floor |-> a.earned_floor,
        interaction_count |-> a.interaction_count]

\* negative_interaction that stops one decay short of the floor
negative_interaction_stalling(a, recovery) ==
    LET decay == (15 * (ONE - recovery)) \div 100
    IN [coherence |-> IF a.coherence - decay >= a.earned_floor
                      THEN a.coherence - decay ELSE a.coherence,
        earned_floor |-> a.earned_floor,
        interaction_count |-> a.interaction_count + 1]

\* _Accumulator.negative_interaction(recovery)
negative_interaction(a, recovery) ==
    LET decay == (15 * (ONE - recovery)) \div 100
    IN [coherence |-> Max(a.earned_floor, a.coherence - decay),
        earned_floor |-> a.earned_floor,
        interaction_count |-> a.interaction_count + 1]

\* effective_coherence that blends at every level of learned coherence
effective_coherence_ungated(a, instant) ==
    (3 * instant + 7 * a.coherence) \div 10

\* effective_coherence whose gate takes the larger of the two signals
effective_coherence_max_gate(a, instant) ==
    LET ctx == a.coherence
    IN IF ctx < Cent(30)
       THEN Max(instant, ctx)
       ELSE (3 * instant + 7 * ctx) \div 10

\* effective_coherence whose gate lets the instant signal through unchecked
effective_coherence_instant_gate(a, instant) ==
    LET ctx == a.coherence
    IN IF ctx < Cent(30)
       THEN instant
       ELSE (3 * instant + 7 * ctx) \div 10

\* _Accumulator.effective_coherence(instant)
effective_coherence(a, instant) ==
    LET ctx == a.coherence
    IN IF ctx < Cent(30)
       THEN Min(instant, ctx)
       ELSE (3 * instant + 7 * ctx) \div 10

---------------------------------------------------------------------------
(* SocialPhase and classify_phase *)

Phases == {"ShyObserver", "BuildingTrust", "QuietlyBeloved",
           "ProtectiveGuardian", "StartledRetreat"}

UPPER_SHY_TO_BUILDING == 350000
\* the regress threshold moved up to the advance threshold: no hysteresis gap
LOWER_BUILDING_TO_SHY_ungapped == UPPER_SHY_TO_BUILDING
LOWER_BUILDING_TO_SHY == 280000
UPPER_BUILDING_TO_BELOVED == 550000
\* the regress threshold moved up to the advance threshold: no hysteresis gap
LOWER_BELOVED_TO_BUILDING_ungapped == UPPER_BUILDING_TO_BELOVED
LOWER_BELOVED_TO_BUILDING == 450000
GUARDIAN_TENSION == 300000
STARTLE_TENSION == 200000

\* classify_phase with the startle check made against the guardian threshold
classify_phase_startle_at_guardian(effective_coh, instant, prev_phase) ==
    IF effective_coh >= Cent(55) /\ instant < GUARDIAN_TENSION
    THEN "ProtectiveGuardian"
    ELSE IF effective_coh < Cent(35) /\ instant < GUARDIAN_TENSION
    THEN "StartledRetreat"
    ELSE IF prev_phase = "ShyObserver"
    THEN (IF effective_coh >= UPPER_SHY_TO_BUILDING
          THEN "BuildingTrust" ELSE "ShyObserver")
    ELSE IF prev_phase = "BuildingTrust"
    THEN (IF effective_coh < LOWER_BUILDING_TO_SHY THEN "ShyObserver"
          ELSE IF effective_coh >= UPPER_BUILDING_TO_BELOVED THEN "QuietlyBeloved"
          ELSE "BuildingTrust")
    ELSE IF prev_phase = "QuietlyBeloved"
    THEN (IF effective_coh < LOWER_BELOVED_TO_BUILDING
          THEN "BuildingTrust" ELSE "QuietlyBeloved")
    ELSE IF effective_coh >= UPPER_BUILDING_TO_BELOVED THEN "QuietlyBeloved"
    ELSE IF effective_coh >= UPPER_SHY_TO_BUILDING THEN "BuildingTrust"
    ELSE "ShyObserver"

\* classify_phase that starts over from ShyObserver after a transient phase
classify_phase_transient_to_shy(effective_coh, instant, prev_phase) ==
    IF effective_coh >= Cent(55) /\ instant < GUARDIAN_TENSION
    THEN "ProtectiveGuardian"
    ELSE IF effective_coh < Cent(35) /\ instant < STARTLE_TENSION
    THEN "StartledRetreat"
    ELSE IF prev_phase = "ShyObserver"
    THEN (IF effective_coh >= UPPER_SHY_TO_BUILDING
          THEN "BuildingTrust" ELSE "ShyObserver")
    ELSE IF prev_phase = "BuildingTrust"
    THEN (IF effective_coh < LOWER_BUILDING_TO_SHY THEN "ShyObserver"
          ELSE IF effective_coh >= UPPER_BUILDING_TO_BELOVED THEN "QuietlyBeloved"
          ELSE "BuildingTrust")
    ELSE IF prev_phase = "QuietlyBeloved"
    THEN (IF effective_coh < LOWER_BELOVED_TO_BUILDING
          THEN "BuildingTrust" ELSE "QuietlyBeloved")
    ELSE "ShyObserver"

\* classify_phase whose guardian override also fires at instant = 0.30
classify_phase_guardian_at_threshold(effective_coh, instant, prev_phase) ==
    IF effective_coh >= Cent(55) /\ instant <= GUARDIAN_TENSION
    THEN "ProtectiveGuardian"
    ELSE IF effective_coh < Cent(35) /\ instant < STARTLE_TENSION
    THEN "StartledRetreat"
    ELSE IF prev_phase = "ShyObserver"
    THEN (IF effective_coh >= UPPER_SHY_TO_BUILDING
          THEN "BuildingTrust" ELSE "ShyObserver")
    ELSE IF prev_phase = "BuildingTrust"
    THEN (IF effective_coh < LOWER_BUILDING_TO_SHY THEN "ShyObserver"
          ELSE IF effective_coh >= UPPER_BUILDING_TO_BELOVED THEN "QuietlyBeloved"
          ELSE "BuildingTrust")
    ELSE IF prev_phase = "QuietlyBeloved"
    THEN (IF effective_coh < LOWER_BELOVED_TO_BUILDING
          THEN "BuildingTrust" ELSE "QuietlyBeloved")
    ELSE IF effective_coh >= UPPER_BUILDING_TO_BELOVED THEN "QuietlyBeloved"
    ELSE IF effective_coh >= UPPER_SHY_TO_BUILDING THEN "BuildingTrust"
    ELSE "ShyObserver"

\* classify_phase(effective_coh, instant, prev_phase)
classify_phase(effective_coh, instant, prev_phase) ==
    IF effective_coh >= Cent(55) /\ instant < GUARDIAN_TENSION
    THEN "ProtectiveGuardian"
    ELSE IF effective_coh < Cent(35) /\ instant < STARTLE_TENSION
    THEN "StartledRetreat"
    ELSE IF prev_phase = "ShyObserver"
    THEN (IF effective_coh >= UPPER_SHY_TO_BUILDING
          THEN "BuildingTrust" ELSE "ShyObserver")
    ELSE IF prev_phase = "BuildingTrust"
    THEN (IF effective_coh < LOWER_BUILDING_TO_SHY THEN "ShyObserver"
          ELSE IF effective_coh >= UPPER_BUILDING_TO_BELOVED THEN "QuietlyBeloved"
          ELSE "BuildingTrust")
    ELSE IF prev_phase = "QuietlyBeloved"
    THEN (IF effective_coh < LOWER_BELOVED_TO_BUILDING
          THEN "BuildingTrust" ELSE "QuietlyBeloved")
    ELSE IF effective_coh >= UPPER_BUILDING_TO_BELOVED THEN "QuietlyBeloved"
    ELSE IF effective_coh >= UPPER_SHY_TO_BUILDING THEN "BuildingTrust"
    ELSE "ShyObserver"

---------------------------------------------------------------------------
(* The directory that holds the state file *)

\* the destination path and the names mkstemp(suffix=".ccf.tmp") may return
Dest == "state.ccf.json"
TmpNames == {"tmp_a.ccf.tmp", "tmp_b.ccf.tmp"}
Names == {Dest} \cup TmpNames

\* no file of that name
Absent == <<"absent">>

Snapshots == 1..MaxSnapshot

\* the document json.dump writes for a snapshot, as the chunks it is written in
Doc(s) == [i \in 1..Chunks |-> <<s, i>>]

---------------------------------------------------------------------------
(* Where the components a specification does not drive rest *)

AccIdle == acc = NewAccumulator

FieldIdle ==
    /\ curiosity_drive = Cent(50)
    /\ recovery_rate = Cent(50)
    /\ accumulators = [h \in Hashes |-> NoAcc]

PhaseIdle == phase = "ShyObserver"

RunIdle ==
    /\ run_instant = 0
    /\ run_curiosity = 0
    /\ phases = <<>>

\* save was given nothing yet
ArgIdle ==
    /\ save_accumulators = <<>>
    /\ save_personality = <<>>

\* CcfOllama.__init__ with its defaults, before any chat
NoContext == <<>>
OllamaIdle ==
    /\ active_context = NoContext
    /\ last_instant = Cent(70)
    /\ _turn_count = 0
    /\ auto_save = TRUE

\* no caller is repeating anything, and it is noon
NoRepeat == -1
DriverIdle ==
    /\ tm_hour = 12
    /\ decay_recovery = NoRepeat
    /\ journey_message = [t |-> "null"]
    /\ ticks = <<>>
    /\ writers = <<>>

SaveIdle ==
    /\ files = [n \in Names |-> Absent]
    /\ pc = "idle"
    /\ state = 0
    /\ tmp_path = "none"
    /\ exc = "none"
    /\ before = Absent
    /\ ArgIdle

---------------------------------------------------------------------------
(* A lone accumulator driven with arbitrary arguments (SpecAcc) *)

InitAcc ==
    /\ acc = NewAccumulator
    /\ call = NoCall
    /\ FieldIdle
    /\ PhaseIdle
    /\ RunIdle
    /\ SaveIdle
    /\ OllamaIdle
    /\ DriverIdle

PositiveInteraction(curiosity) ==
    /\ acc.interaction_count < MaxOps
    /\ acc' = positive_interaction(acc, curiosity)
    /\ call' = [name |-> "positive_interaction", args |-> <<curiosity>>, ret |-> 0]
    /\ UNCHANGED accOthers

NegativeInteraction(recovery) ==
    /\ acc.interaction_count < MaxOps
    /\ acc' = negative_interaction(acc, recovery)
    /\ call' = [name |-> "negative_interaction", args |-> <<recovery>>, ret |-> 0]
    /\ UNCHANGED accOthers

EffectiveCoherence(instant) ==
    /\ call' = [name |-> "effective_coherence", args |-> <<instant>>,
                ret |-> effective_coherence(acc, instant)]
    /\ UNCHANGED <<acc, accOthers>>

NextAcc ==
    \/ \E curiosity \in CuriosityVals : PositiveInteraction(curiosity)
    \/ \E recovery \in RecoveryVals : NegativeInteraction(recovery)
    \/ \E instant \in InstantVals : EffectiveCoherence(instant)

SpecAcc == InitAcc /\ [][NextAcc]_vars

---------------------------------------------------------------------------
(* Claims about the lone accumulator, checked under SpecAcc *)

\* C1: from a fresh accumulator, over any sequence of PositiveInteraction and
\* NegativeInteraction with arguments in [0,1], earned_floor never decreases
\* from one state to the next and coherence >= earned_floor in every state.
C1_FloorMonotone ==
    /\ [](acc.coherence >= acc.earned_floor)
    /\ [][acc'.earned_floor >= acc.earned_floor]_vars

\* a negative interaction has pushed coherence down onto a floor earned earlier
C1_Witness ==
    /\ call.name = "negative_interaction"
    /\ acc.earned_floor > 0
    /\ acc.coherence = acc.earned_floor
    /\ acc.interaction_count >= 3

\* C2: NegativeInteraction(recovery) sets coherence to
\* max(earned_floor, coherence - 0.15*(1 - recovery)), leaves earned_floor
\* unchanged and adds one to interaction_count; from coherence 0.06 and floor
\* 0.018, recovery 0.5 yields 0.018; the result is never below the old floor.
C2_NegativeInteraction ==
    [][call'.name = "negative_interaction" =>
        LET recovery == call'.args[1]
            lowered == acc.coherence - (150000 - (recovery * 15) \div 100)
        IN /\ acc'.coherence = (IF lowered > acc.earned_floor
                                THEN lowered ELSE acc.earned_floor)
           /\ acc'.earned_floor = acc.earned_floor
           /\ acc'.interaction_count = acc.interaction_count + 1
           /\ acc'.coherence >= acc.earned_floor
           /\ (acc.coherence = 60000 /\ acc.earned_floor = 18000
                 /\ recovery = 500000) => acc'.coherence = 18000]_vars

\* the concrete case: one positive at 0.5, then one negative at 0.5
C2_Witness ==
    /\ call = [name |-> "negative_interaction", args |-> <<500000>>, ret |-> 0]
    /\ acc = [coherence |-> 18000, earned_floor |-> 18000, interaction_count |-> 2]

\* C3: PositiveInteraction(curiosity) computes gain = curiosity*0.12, sets
\* coherence to min(1.0, coherence + gain), then earned_floor to
\* min(new coherence, earned_floor + 0.3*gain), and adds one to
\* interaction_count; curiosity 0.5 on a fresh accumulator gives 0.06 / 0.018.
C3_PositiveInteraction ==
    [][call'.name = "positive_interaction" =>
        LET curiosity == call'.args[1]
            gain == (curiosity \div 100) * 12
            raised == acc.coherence + gain
            floor == acc.earned_floor + (gain \div 10) * 3
        IN /\ acc'.coherence = (IF raised < ONE THEN raised ELSE ONE)
           /\ acc'.earned_floor = (IF floor < acc'.coherence
                                   THEN floor ELSE acc'.coherence)
           /\ acc'.interaction_count = acc.interaction_count + 1
           /\ (acc = NewAccumulator /\ curiosity = 500000) =>
                  (acc'.coherence = 60000 /\ acc'.earned_floor = 18000)]_vars

\* the concrete case: one PositiveInteraction(0.5) on a fresh accumulator
C3_Witness ==
    /\ call = [name |-> "positive_interaction", args |-> <<500000>>, ret |-> 0]
    /\ acc = [coherence |-> 60000, earned_floor |-> 18000, interaction_count |-> 1]

---------------------------------------------------------------------------
(* CoherenceFieldPy (Spec) *)

\* CoherenceFieldPy.__init__: both drives validated to [0,1], no accumulators
Init ==
    /\ curiosity_drive \in CuriosityVals
    /\ recovery_rate \in RecoveryVals
    /\ accumulators = [h \in Hashes |-> NoAcc]
    /\ call = NoCall
    /\ AccIdle
    /\ PhaseIdle
    /\ RunIdle
    /\ SaveIdle
    /\ OllamaIdle
    /\ DriverIdle

\* a lookup that creates the accumulator of every context hash
get_or_create_all(accs, context_hash) ==
    [h \in DOMAIN accs |-> IF accs[h] = NoAcc THEN NewAccumulator ELSE accs[h]]

\* CoherenceFieldPy._get_or_create: the population after the lookup
get_or_create(accs, context_hash) ==
    IF accs[context_hash] = NoAcc
    THEN [accs EXCEPT ![context_hash] = NewAccumulator]
    ELSE accs

\* interactions recorded so far, over all context hashes
RECURSIVE Recorded(_, _)
Recorded(accs, hs) ==
    IF hs = {} THEN 0
    ELSE LET h == CHOOSE x \in hs : TRUE
         IN (IF accs[h] = NoAcc THEN 0 ELSE accs[h].interaction_count)
            + Recorded(accs, hs \ {h})

\* CoherenceFieldPy.positive_interaction(context_hash)
CoherenceFieldPy_positive_interaction(context_hash) ==
    LET accs == get_or_create(accumulators, context_hash)
    IN /\ Recorded(accumulators, Hashes) < MaxCount
       /\ accumulators' = [accs EXCEPT ![context_hash] =
                               positive_interaction(@, curiosity_drive)]
       /\ call' = [name |-> "positive_interaction", args |-> <<context_hash>>, ret |-> 0]
       /\ UNCHANGED <<curiosity_drive, recovery_rate, fieldOthers>>

\* CoherenceFieldPy.negative_interaction(context_hash)
CoherenceFieldPy_negative_interaction(context_hash) ==
    LET accs == get_or_create(accumulators, context_hash)
    IN /\ Recorded(accumulators, Hashes) < MaxCount
       /\ accumulators' = [accs EXCEPT ![context_hash] =
                               negative_interaction(@, recovery_rate)]
       /\ call' = [name |-> "negative_interaction", args |-> <<context_hash>>, ret |-> 0]
       /\ UNCHANGED <<curiosity_drive, recovery_rate, fieldOthers>>

\* the value CoherenceFieldPy.effective_coherence(context_hash, instant) returns
field_effective_coherence(accs, context_hash, instant) ==
    IF accs[context_hash] = NoAcc
    THEN LET ctx == 0
         IN IF ctx < Cent(30)
            THEN Min(instant, ctx)
            ELSE (3 * instant + 7 * ctx) \div 10
    ELSE effective_coherence(accs[context_hash], instant)

\* the value CoherenceFieldPy.raw_coherence(context_hash) returns
field_raw_coherence(accs, context_hash) ==
    IF accs[context_hash] = NoAcc THEN 0 ELSE accs[context_hash].coherence

\* the value CoherenceFieldPy.interaction_count(context_hash) returns
field_interaction_count(accs, context_hash) ==
    IF accs[context_hash] = NoAcc THEN 0 ELSE accs[context_hash].interaction_count

\* CoherenceFieldPy.effective_coherence(context_hash, instant)
CoherenceFieldPy_effective_coherence(context_hash, instant) ==
    /\ call' = [name |-> "effective_coherence", args |-> <<context_hash, instant>>,
                ret |-> field_effective_coherence(accumulators, context_hash, instant)]
    /\ UNCHANGED <<fieldVars, fieldOthers>>

\* raw_coherence that looks the accumulator up with _get_or_create
CoherenceFieldPy_raw_coherence_creating(context_hash) ==
    /\ accumulators' = get_or_create(accumulators, context_hash)
    /\ call' = [name |-> "raw_coherence", args |-> <<context_hash>>,
                ret |-> field_raw_coherence(accumulators, context_hash)]
    /\ UNCHANGED <<curiosity_drive, recovery_rate, fieldOthers>>

\* CoherenceFieldPy.raw_coherence(context_hash)
CoherenceFieldPy_raw_coherence(context_hash) ==
    /\ call' = [name |-> "raw_coherence", args |-> <<context_hash>>,
                ret |-> field_raw_coherence(accumulators, context_hash)]
    /\ UNCHANGED <<fieldVars, fieldOthers>>

\* CoherenceFieldPy.interaction_count(context_hash)
CoherenceFieldPy_interaction_count(context_hash) ==
    /\ call' = [name |-> "interaction_count", args |-> <<context_hash>>,
                ret |-> field_interaction_count(accumulators, context_hash)]
    /\ UNCHANGED <<fieldVars, fieldOthers>>

Next ==
    \/ \E h \in Hashes : CoherenceFieldPy_positive_interaction(h)
    \/ \E h \in Hashes : CoherenceFieldPy_negative_interaction(h)
    \/ \E h \in Hashes, instant \in InstantVals :
           CoherenceFieldPy_effective_coherence(h, instant)
    \/ \E h \in Hashes : CoherenceFieldPy_raw_coherence(h)
    \/ \E h \in Hashes : CoherenceFieldPy_interaction_count(h)

Spec == Init /\ [][Next]_vars

---------------------------------------------------------------------------
(* Claims about CoherenceFieldPy, checked under Spec *)

\* C4: for a CoherenceFieldPy built with curiosity_drive and recovery_rate in
\* [0,1], after any sequence of positive_interaction and negative_interaction
\* calls on any context hashes, every accumulator satisfies
\* 0 <= earned_floor <= coherence <= 1.
C4_UnitRange ==
    \A h \in Hashes :
        accumulators[h] # NoAcc =>
            /\ 0 <= accumulators[h].earned_floor
            /\ accumulators[h].earned_floor <= accumulators[h].coherence
            /\ accumulators[h].coherence <= ONE

\* a positive interaction has been cut off at 1.0
C4_Witness ==
    /\ call.name = "positive_interaction"
    /\ \E h \in Hashes : accumulators[h] # NoAcc /\ accumulators[h].coherence = ONE

\* C5: EffectiveCoherence(instant) is min(instant, coherence) when the learned
\* coherence is below 0.3 and 0.3*instant + 0.7*coherence otherwise; for a
\* hash without accumulator the field returns what a zero accumulator gives,
\* 0.0; the result is in [0,1].
C5_EffectiveCoherence ==
    call.name = "effective_coherence" =>
        LET h == call.args[1]
            instant == call.args[2]
            learned == IF accumulators[h] = NoAcc THEN 0
                       ELSE accumulators[h].coherence
        IN /\ learned < 300000 =>
                  call.ret = (IF instant < learned THEN instant ELSE learned)
           /\ learned >= 300000 =>
                  10 * call.ret = 3 * instant + 7 * learned
           /\ accumulators[h] = NoAcc => call.ret = 0
           /\ 0 <= call.ret /\ call.ret <= ONE

\* a blended read of a context at 0.3 or more, while the other context has no
\* accumulator
C5_Witness ==
    /\ call.name = "effective_coherence"
    /\ accumulators[call.args[1]] # NoAcc
    /\ accumulators[call.args[1]].coherence >= 300000
    /\ call.args[2] < accumulators[call.args[1]].coherence
    /\ \E h \in Hashes : accumulators[h] = NoAcc

---------------------------------------------------------------------------
(* The phase classifier driven tick after tick (SpecClassify) *)

\* the caller supplies the previous phase: a session may start from any
InitClassify ==
    /\ phase \in Phases
    /\ call = NoCall
    /\ AccIdle
    /\ FieldIdle
    /\ RunIdle
    /\ SaveIdle
    /\ OllamaIdle
    /\ DriverIdle

\* one tick: phase = classify_phase(effective_coh, instant, phase)
Classify(effective_coh, instant) ==
    /\ phase' = classify_phase(effective_coh, instant, phase)
    /\ call' = [name |-> "classify_phase",
                args |-> <<effective_coh, instant, phase>>,
                ret |-> phase']
    /\ UNCHANGED classifyOthers

NextClassify ==
    \E effective_coh \in CoherenceTicks, instant \in InstantTicks :
        Classify(effective_coh, instant)

SpecClassify == InitClassify /\ [][NextClassify]_vars

\* C6: for every previous phase, Classify returns ProtectiveGuardian exactly
\* when effective_coherence >= 0.55 and instant < 0.30, and StartledRetreat
\* exactly when effective_coherence < 0.35 and instant < 0.20; both overrides
\* come before the hysteresis rules: Classify(0.75, 0.10, QuietlyBeloved) is
\* ProtectiveGuardian and Classify(0.10, 0.05, ShyObserver) is StartledRetreat.
C6_Overrides ==
    call.name = "classify_phase" =>
        LET c == call.args[1]
            i == call.args[2]
        IN /\ call.ret = "ProtectiveGuardian" <=> (c >= 550000 /\ i < 300000)
           /\ call.ret = "StartledRetreat" <=> (c < 350000 /\ i < 200000)
           /\ call.args = <<750000, 100000, "QuietlyBeloved">> =>
                  call.ret = "ProtectiveGuardian"
           /\ call.args = <<100000, 50000, "ShyObserver">> =>
                  call.ret = "StartledRetreat"

\* StartledRetreat returned from BuildingTrust inside its hysteresis band,
\* where the hysteresis rule alone would have kept BuildingTrust
C6_Witness ==
    /\ call.name = "classify_phase"
    /\ call.args[3] = "BuildingTrust"
    /\ call.args[1] >= 280000 /\ call.args[1] < 350000
    /\ call.ret = "StartledRetreat"

\* C7: when neither override applies, Classify depends only on the effective
\* coherence c and the previous phase: from ShyObserver, BuildingTrust iff
\* c >= 0.35, else ShyObserver; from BuildingTrust, ShyObserver iff c < 0.28,
\* else QuietlyBeloved iff c >= 0.55, else BuildingTrust; from QuietlyBeloved,
\* BuildingTrust iff c < 0.45, else QuietlyBeloved; from ProtectiveGuardian
\* or StartledRetreat, QuietlyBeloved if c >= 0.55, else BuildingTrust if
\* c >= 0.35, else ShyObserver.
C7_Hysteresis ==
    call.name = "classify_phase" =>
        LET c == call.args[1]
            i == call.args[2]
            prev == call.args[3]
            override == \/ c >= 550000 /\ i < 300000
                        \/ c < 350000 /\ i < 200000
        IN ~override =>
            /\ prev = "ShyObserver" =>
                   /\ call.ret = "BuildingTrust" <=> c >= 350000
                   /\ call.ret = "ShyObserver" <=> c < 350000
            /\ prev = "BuildingTrust" =>
                   /\ call.ret = "ShyObserver" <=> c < 280000
                   /\ call.ret = "QuietlyBeloved" <=> c >= 550000
                   /\ call.ret = "BuildingTrust" <=> (c >= 280000 /\ c < 550000)
            /\ prev = "QuietlyBeloved" =>
                   /\ call.ret = "BuildingTrust" <=> c < 450000
                   /\ call.ret = "QuietlyBeloved" <=> c >= 450000
            /\ prev \in {"ProtectiveGuardian", "StartledRetreat"} =>
                   call.ret = (IF c >= 550000 THEN "QuietlyBeloved"
                               ELSE IF c >= 350000 THEN "BuildingTrust"
                               ELSE "ShyObserver")

\* BuildingTrust kept inside the 0.28-0.35 band, where a fresh derivation
\* would have given ShyObserver
C7_Witness ==
    /\ call.name = "classify_phase"
    /\ call.args[3] = "BuildingTrust"
    /\ call.args[1] >= 280000 /\ call.args[1] < 350000
    /\ call.args[2] >= 200000
    /\ call.ret = "BuildingTrust"

\* C8 as amended: starting with previous phase BuildingTrust and feeding
\* Classify, tick after tick, effective_coherence values between 0.30 and
\* 0.33, the returned phase is BuildingTrust at every tick, for every
\* instant value in [0.20, 1] supplied with those ticks.
C8_HysteresisStable ==
    [][(/\ call'.name = "classify_phase"
        /\ phase = "BuildingTrust"
        /\ call'.args[1] >= 300000 /\ call'.args[1] <= 330000
        /\ call'.args[2] >= 200000)
       => phase' = "BuildingTrust"]_vars

\* a tick inside the band that started from BuildingTrust and kept it
C8_Witness ==
    /\ call.name = "classify_phase"
    /\ call.args[3] = "BuildingTrust"
    /\ call.args[1] >= 300000 /\ call.args[1] <= 330000
    /\ call.args[2] >= 200000
    /\ phase = "BuildingTrust"

\* C8 as claimed: the same for every instant value in [0,1].
C8_AnyInstant ==
    [][(/\ call'.name = "classify_phase"
        /\ phase = "BuildingTrust"
        /\ call'.args[1] >= 300000 /\ call'.args[1] <= 330000)
       => phase' = "BuildingTrust"]_vars

---------------------------------------------------------------------------
(* The earned-trust journey _run_turns(n, instant, curiosity) (SpecRun) *)

\* acc = _Acc(); phase = SocialPhase.ShyObserver
InitRun ==
    /\ acc = NewAccumulator
    /\ phase = "ShyObserver"
    /\ run_instant \in InstantVals
    /\ run_curiosity \in CuriosityVals
    /\ phases = <<>>
    /\ call = NoCall
    /\ FieldIdle
    /\ SaveIdle
    /\ OllamaIdle
    /\ DriverIdle

\* one turn of the loop: acc.positive(curiosity); eff = acc.effective(instant);
\* phase = classify_phase(eff, instant, phase)
Turn ==
    /\ Len(phases) < MaxTurns
    /\ LET after == positive_interaction(acc, run_curiosity)
           eff == effective_coherence(after, run_instant)
       IN /\ acc' = after
          /\ phase' = classify_phase(eff, run_instant, phase)
          /\ call' = [name |-> "classify_phase",
                      args |-> <<eff, run_instant, phase>>,
                      ret |-> phase']
    /\ phases' = Append(phases, phase')
    /\ UNCHANGED <<run_instant, run_curiosity, runOthers>>

NextRun == Turn

SpecRun == InitRun /\ [][NextRun]_vars

\* C9: from a fresh accumulator and previous phase ShyObserver, applying
\* PositiveInteraction(curiosity=0.5) 30 times and after each one computing
\* EffectiveCoherence(instant=0.8) and Classify with the previous result: the
\* first phase is ShyObserver, BuildingTrust occurs before QuietlyBeloved,
\* the last phase is QuietlyBeloved, and ShyObserver never occurs again
\* after the first BuildingTrust.
C9_TrustArc ==
    (run_curiosity = 500000 /\ run_instant = 800000) =>
        /\ Len(phases) >= 1 => phases[1] = "ShyObserver"
        /\ Len(phases) >= 30 => phases[30] = "QuietlyBeloved"
        /\ \A j \in 1..Len(phases) :
               phases[j] = "QuietlyBeloved" =>
                   \E i \in 1..(j - 1) : phases[i] = "BuildingTrust"
        /\ \A i, j \in 1..Len(phases) :
               (i < j /\ phases[i] = "BuildingTrust") => phases[j] # "ShyObserver"

\* the journey of the claim after its 30th turn
C9_Witness ==
    /\ run_curiosity = 500000
    /\ run_instant = 800000
    /\ Len(phases) = 30
    /\ acc.interaction_count = 30
    /\ \E i \in 1..30 : phases[i] = "BuildingTrust"

---------------------------------------------------------------------------
(* CcfPersistence.save, one system call at a time (SpecSave) *)

\* a directory that holds no state file yet, or a complete earlier snapshot
InitSave ==
    /\ files \in {[n \in Names |-> IF n = Dest THEN c ELSE Absent] :
                     c \in {Absent} \cup {Doc(s) : s \in Snapshots}}
    /\ pc = "idle"
    /\ state = 0
    /\ tmp_path = "none"
    /\ exc = "none"
    /\ before = Absent
    /\ ArgIdle
    /\ call = NoCall
    /\ AccIdle
    /\ FieldIdle
    /\ PhaseIdle
    /\ RunIdle
    /\ OllamaIdle
    /\ DriverIdle

\* save(accumulators, personality, path) is called: the state is built and
\* the parent directory, which exists, is left as it is
SaveCall(s) ==
    /\ pc \in {"idle", "returned", "raised"}
    /\ pc' = "mkstemp"
    /\ state' = s
    /\ tmp_path' = "none"
    /\ exc' = "none"
    /\ before' = files[Dest]
    /\ UNCHANGED <<files, saveOthers>>

\* a save that opens the destination itself for writing instead of a
\* temporary file
Mkstemp_opens_destination(t) ==
    /\ pc = "mkstemp"
    /\ files[t] = Absent
    /\ files' = [files EXCEPT ![Dest] = <<>>]
    /\ tmp_path' = Dest
    /\ pc' = "write"
    /\ UNCHANGED <<state, exc, before, saveOthers>>

\* fd, tmp_path = tempfile.mkstemp(dir=path.parent, suffix=".ccf.tmp")
Mkstemp(t) ==
    /\ pc = "mkstemp"
    /\ files[t] = Absent
    /\ files' = [files EXCEPT ![t] = <<>>]
    /\ tmp_path' = t
    /\ pc' = "write"
    /\ UNCHANGED <<state, exc, before, saveOthers>>

\* mkstemp raises OSError: outside the try block, nothing was created
MkstempFails ==
    /\ pc = "mkstemp"
    /\ exc' = "mkstemp"
    /\ pc' = "raised"
    /\ UNCHANGED <<files, state, tmp_path, before, saveOthers>>

\* json.dump(state, f): the next chunk reaches the temporary file; after the
\* last one the with block closes the file
Write ==
    /\ pc = "write"
    /\ LET n == Len(files[tmp_path]) + 1
       IN /\ files' = [files EXCEPT ![tmp_path] = Append(@, Doc(state)[n])]
          /\ pc' = IF n = Chunks THEN "replace" ELSE "write"
    /\ UNCHANGED <<state, tmp_path, exc, before, saveOthers>>

\* a write (or the closing flush) raises OSError: the with block closes the
\* file and the except clause is entered
WriteFails ==
    /\ pc = "write"
    /\ exc' = "write"
    /\ pc' = "except"
    /\ UNCHANGED <<files, state, tmp_path, before, saveOthers>>

\* os.replace(tmp_path, path)
Replace ==
    /\ pc = "replace"
    /\ files' = [files EXCEPT ![Dest] = files[tmp_path], ![tmp_path] = Absent]
    /\ pc' = "returned"
    /\ UNCHANGED <<state, tmp_path, exc, before, saveOthers>>

\* os.replace raises OSError: nothing is renamed
ReplaceFails ==
    /\ pc = "replace"
    /\ exc' = "replace"
    /\ pc' = "except"
    /\ UNCHANGED <<files, state, tmp_path, before, saveOthers>>

\* the except clause without its os.unlink
Cleanup_keeps_tmp ==
    /\ pc = "except"
    /\ pc' = "raised"
    /\ UNCHANGED <<files, state, tmp_path, exc, before, saveOthers>>

\* except Exception: os.unlink(tmp_path); raise
Cleanup ==
    /\ pc = "except"
    /\ files' = [files EXCEPT ![tmp_path] = Absent]
    /\ pc' = "raised"
    /\ UNCHANGED <<state, tmp_path, exc, before, saveOthers>>

NextSave ==
    \/ \E s \in Snapshots : SaveCall(s)
    \/ \E t \in TmpNames : Mkstemp(t)
    \/ MkstempFails
    \/ Write
    \/ WriteFails
    \/ Replace
    \/ ReplaceFails
    \/ Cleanup

SpecSave == InitSave /\ [][NextSave]_vars

---------------------------------------------------------------------------
(* CcfPersistence.save in a process that may die at any step (SpecCrash) *)

\* the process dies between two system calls of save: what reached the
\* directory stays as it is, and neither the except clause nor anything else
\* of the call runs any more
Crash ==
    /\ pc \in {"mkstemp", "write", "replace", "except"}
    /\ pc' = "crashed"
    /\ UNCHANGED <<files, state, tmp_path, exc, before, saveOthers>>

NextCrash ==
    \/ NextSave
    \/ Crash

SpecCrash == InitSave /\ [][NextCrash]_vars

\* C11: at every intermediate point of a Save (temporary file created,
\* partly written, fully written, renamed), a process crash at that point
\* included, the content observable at the destination path is either exactly
\* the previous complete snapshot (or absent if there was none) or exactly
\* the new complete snapshot, never a partial or mixed one.
C11_AtomicReplace ==
    /\ files[Dest] \in {Absent} \cup {Doc(s) : s \in Snapshots}
    /\ pc # "idle" => files[Dest] \in {before, Doc(state)}

\* a crash while the temporary file is partly written, over an earlier and
\* different snapshot, which is still what the destination holds
C11_Witness ==
    /\ pc = "crashed"
    /\ tmp_path \in TmpNames
    /\ Len(files[tmp_path]) \in 1..(Chunks - 1)
    /\ before \in {Doc(s) : s \in Snapshots}
    /\ before # Doc(state)
    /\ files[Dest] = before

---------------------------------------------------------------------------
(* JSON values as json.load returns them, and Python's conversions of them *)

\* a value carries its Python type; a float is a fixed-point number and the
\* keys of a dict are strings
JNull == [t |-> "null"]
JInt(n) == [t |-> "int", v |-> n]
JFloat(x) == [t |-> "float", v |-> x]
\* the float infinity, which json.load returns for 1e999
JInf == [t |-> "inf"]
JStr(s) == [t |-> "str", v |-> s]
JList(q) == [t |-> "list", v |-> q]
JObj(f) == [t |-> "dict", v |-> f]

\* {}
EmptyDict == [k \in {} |-> JNull]

\* the outcome of an expression: its value, or the exception it raises
Value(v) == [exc |-> "none", v |-> v]
Throws(e) == [exc |-> e, v |-> 0]

\* the strings of the model that float() and int() can parse
FloatLiterals == ("0.5" :> Cent(50))
IntLiterals == ("1" :> 1)

\* float(x); an infinite x is outside the values the model gives to float()
py_float(x) ==
    CASE x.t = "float" -> Value(x.v)
      [] x.t = "int" -> Value(x.v * ONE)
      [] x.t = "str" -> IF x.v \in DOMAIN FloatLiterals
                        THEN Value(FloatLiterals[x.v])
                        ELSE Throws("ValueError")
      [] x.t \in {"null", "list", "dict"} -> Throws("TypeError")

\* int(x): a float is truncated towards zero
py_int(x) ==
    CASE x.t = "int" -> Value(x.v)
      [] x.t = "float" -> Value(IF x.v >= 0 THEN x.v \div ONE
                                ELSE -((-x.v) \div ONE))
      [] x.t = "inf" -> Throws("OverflowError")
      [] x.t = "str" -> IF x.v \in DOMAIN IntLiterals
                        THEN Value(IntLiterals[x.v])
                        ELSE Throws("ValueError")
      [] x.t \in {"null", "list", "dict"} -> Throws("TypeError")

\* str(x), which never raises; the model gives it strings, None and ints
py_str(x) ==
    CASE x.t = "str" -> Value(x.v)
      [] x.t = "null" -> Value("None")
      [] x.t = "int" -> Value(ToString(x.v))

\* x >= n for an int n
py_ge(x, n) ==
    CASE x.t = "int" -> Value(x.v >= n)
      [] x.t = "float" -> Value(x.v >= n * ONE)
      [] x.t = "inf" -> Value(TRUE)
      [] x.t \in {"null", "str", "list", "dict"} -> Throws("TypeError")

\* x > n for an int n
py_gt(x, n) ==
    CASE x.t = "int" -> Value(x.v > n)
      [] x.t = "float" -> Value(x.v > n * ONE)
      [] x.t = "inf" -> Value(TRUE)
      [] x.t \in {"null", "str", "list", "dict"} -> Throws("TypeError")

\* d.get(k, default) of a dict d
dict_get(d, k, default) == IF k \in DOMAIN d.v THEN d.v[k] ELSE default

\* d[k]: only a dict can be indexed by a string
subscript(d, k) ==
    IF d.t # "dict" THEN Throws("TypeError")
    ELSE IF k \in DOMAIN d.v THEN Value(d.v[k])
    ELSE Throws("KeyError")

\* the members of a set in some order
RECURSIVE SetToSeq(_)
SetToSeq(S) ==
    IF S = {} THEN <<>>
    ELSE LET x == CHOOSE y \in S : TRUE
         IN <<x>> \o SetToSeq(S \ {x})

\* for item in x: a list yields its items and a dict its keys; the model
\* iterates no string
py_iter(x) ==
    CASE x.t = "list" -> Value(x.v)
      [] x.t = "dict" -> Value([i \in 1..Cardinality(DOMAIN x.v) |->
                                  JStr(SetToSeq(DOMAIN x.v)[i])])
      [] x.t \in {"null", "int", "float", "inf"} -> Throws("TypeError")

---------------------------------------------------------------------------
(* CcfPersistence.load *)

CCF_SCHEMA_VERSION == 1

\* what a call of load comes to: the pair it returns, (None, None), or the
\* exception it raises
NoPersonality == [curiosity |-> 0, recovery |-> 0]
NoRecord == [coherence |-> 0, earned_floor |-> 0, interaction_count |-> 0,
             last_phase |-> ""]
Returned(loaded, pers) ==
    [raises |-> "none", none |-> FALSE, accumulators |-> loaded,
     personality |-> pers]
NoneNone ==
    [raises |-> "none", none |-> TRUE, accumulators |-> EmptyDict,
     personality |-> NoPersonality]
Raises(e) ==
    [raises |-> e, none |-> FALSE, accumulators |-> EmptyDict,
     personality |-> NoPersonality]

\* the keys save writes into a record of contexts
RecordKeys ==
    {"ctx_hash", "coherence", "earned_floor", "interaction_count", "last_phase"}

\* the first exception a sequence of outcomes raises
RECURSIVE FirstRaised(_)
FirstRaised(outcomes) ==
    IF Len(outcomes) = 0 THEN "none"
    ELSE IF Head(outcomes).exc # "none" THEN Head(outcomes).exc
    ELSE FirstRaised(Tail(outcomes))

\* the body of the try block for one record: the hash and the accumulator
\* dict it stores, or the exception it raises
load_record_body(ctx_record) ==
    LET key == subscript(ctx_record, "ctx_hash")
        ctx_hash == IF key.exc = "none" THEN py_int(key.v) ELSE key
    IN IF ctx_hash.exc # "none"
       THEN [exc |-> ctx_hash.exc, ctx_hash |-> 0, record |-> NoRecord]
       ELSE LET coherence ==
                    py_float(dict_get(ctx_record, "coherence", JFloat(0)))
                earned_floor ==
                    py_float(dict_get(ctx_record, "earned_floor", JFloat(0)))
                interaction_count ==
                    py_int(dict_get(ctx_record, "interaction_count", JInt(0)))
                last_phase ==
                    py_str(dict_get(ctx_record, "last_phase",
                                    JStr("ShyObserver")))
                raised == FirstRaised(<<coherence, earned_floor,
                                        interaction_count, last_phase>>)
            IN IF raised # "none"
               THEN [exc |-> raised, ctx_hash |-> 0, record |-> NoRecord]
               ELSE [exc |-> "none", ctx_hash |-> ctx_hash.v,
                     record |-> [coherence |-> coherence.v,
                                 earned_floor |-> earned_floor.v,
                                 interaction_count |-> interaction_count.v,
                                 last_phase |-> last_phase.v]]

\* a reader that takes a key it does not know for a malformed record
load_record_strict(ctx_record) ==
    IF ctx_record.t = "dict" /\ ~(DOMAIN ctx_record.v \subseteq RecordKeys)
    THEN [exc |-> "KeyError", ctx_hash |-> 0, record |-> NoRecord]
    ELSE load_record_body(ctx_record)

\* one pass of the loop over contexts
load_record(ctx_record) == load_record_body(ctx_record)

\* for ctx_record in ...: the records are stored under their hashes, a later
\* one replacing an earlier one; KeyError, ValueError and TypeError skip the
\* record, any other exception leaves the loop and load
RECURSIVE load_contexts(_, _)
load_contexts(records, loaded) ==
    IF Len(records) = 0 THEN [exc |-> "none", accumulators |-> loaded]
    ELSE LET r == load_record(Head(records))
         IN IF r.exc = "none"
            THEN load_contexts(Tail(records),
                               (r.ctx_hash :> r.record) @@ loaded)
            ELSE IF r.exc \in {"KeyError", "ValueError", "TypeError"}
            THEN load_contexts(Tail(records), loaded)
            ELSE [exc |-> r.exc, accumulators |-> loaded]

\* version = state.get("version", 1); if version > CCF_SCHEMA_VERSION: raise
check_version(snapshot) ==
    LET newer == py_gt(dict_get(snapshot, "version", JInt(1)),
                       CCF_SCHEMA_VERSION)
    IN IF newer.exc # "none" THEN newer.exc
       ELSE IF newer.v THEN "CcfLoadError"
       ELSE "none"

\* the personality dict load builds
load_personality_body(snapshot) ==
    LET pers == dict_get(snapshot, "personality", JObj(EmptyDict))
    IN IF pers.t # "dict" THEN Throws("AttributeError")
       ELSE LET curiosity ==
                    py_float(dict_get(pers, "curiosity", JFloat(Cent(50))))
                recovery ==
                    py_float(dict_get(pers, "recovery", JFloat(Cent(50))))
                raised == FirstRaised(<<curiosity, recovery>>)
            IN IF raised # "none" THEN Throws(raised)
               ELSE Value([curiosity |-> curiosity.v,
                           recovery |-> recovery.v])

\* a reader that trusts the personality of files tagged 0.1.4 only
load_personality_of_tagged(snapshot) ==
    IF dict_get(snapshot, "ccf_version", JStr("0.1.4")) = JStr("0.1.4")
    THEN load_personality_body(snapshot)
    ELSE Value([curiosity |-> Cent(50), recovery |-> Cent(50)])

load_personality(snapshot) == load_personality_body(snapshot)

\* the rest of load once json.load has returned
load_state(snapshot) ==
    IF snapshot.t # "dict" THEN Raises("AttributeError")
    ELSE IF check_version(snapshot) # "none"
    THEN Raises(check_version(snapshot))
    ELSE LET pers == load_personality(snapshot)
         IN IF pers.exc # "none" THEN Raises(pers.exc)
            ELSE LET records ==
                         py_iter(dict_get(snapshot, "contexts", JList(<<>>)))
                 IN IF records.exc # "none" THEN Raises(records.exc)
                    ELSE LET loaded == load_contexts(records.v, EmptyDict)
                         IN IF loaded.exc # "none" THEN Raises(loaded.exc)
                            ELSE Returned(loaded.accumulators, pers.v)

\* bytes that are no UTF-8 text
NotUtf8 == [t |-> "bytes"]
InvalidUtf8 == <<<<NotUtf8, 1>>>>

\* f.read() decodes the whole file
is_utf8(content) == \A i \in 1..Len(content) : content[i][1].t # "bytes"

\* the text is a JSON document when every chunk json.dump wrote is there
is_json(content) ==
    /\ Len(content) = Chunks
    /\ content = Doc(content[1][1])

\* load(path), given what the directory holds under path
load(content) ==
    IF content = Absent THEN NoneNone
    ELSE IF ~is_utf8(content) THEN Raises("UnicodeDecodeError")
    ELSE IF ~is_json(content) THEN NoneNone
    ELSE load_state(content[1][1])

---------------------------------------------------------------------------
(* The files load is given (SpecLoad) *)

\* a key a dict does not hold
Missing == [t |-> "missing"]
Field(k, x) == IF x.t = "missing" THEN EmptyDict ELSE (k :> x)

\* one record of contexts
Record(h, c, f, n, ph, note) ==
    JObj(Field("ctx_hash", h) @@ Field("coherence", c)
         @@ Field("earned_floor", f) @@ Field("interaction_count", n)
         @@ Field("last_phase", ph) @@ Field("note", note))

\* two records as save writes them, and records that differ from the first
\* in one place: an unknown key, a key left out, a value of another type, an
\* infinite count, a floor above the coherence, a value that is no dict
RecordVals ==
    {Record(JInt(0), JFloat(Cent(40)), JFloat(Cent(10)), JInt(3),
            JStr("QuietlyBeloved"), Missing),
     Record(JInt(1), JFloat(Cent(80)), JFloat(Cent(20)), JInt(7),
            JStr("BuildingTrust"), Missing),
     Record(JInt(0), JFloat(Cent(40)), JFloat(Cent(10)), JInt(3),
            JStr("QuietlyBeloved"), JStr("x")),
     Record(Missing, JFloat(Cent(40)), JFloat(Cent(10)), JInt(3),
            JStr("QuietlyBeloved"), Missing),
     Record(JInt(0), Missing, JFloat(Cent(10)), JInt(3),
            JStr("QuietlyBeloved"), Missing),
     Record(JInt(0), JFloat(Cent(40)), JFloat(Cent(10)), JInt(3),
            Missing, Missing),
     Record(JStr("1"), JFloat(Cent(40)), JFloat(Cent(10)), JInt(3),
            JStr("QuietlyBeloved"), Missing),
     Record(JInt(0), JStr("abc"), JFloat(Cent(10)), JInt(3),
            JStr("QuietlyBeloved"), Missing),
     Record(JInt(0), JFloat(Cent(40)), JFloat(Cent(10)), JInf,
            JStr("QuietlyBeloved"), Missing),
     Record(JInt(1), JFloat(Cent(20)), JFloat(Cent(90)), JInt(-1),
            JStr("QuietlyBeloved"), Missing),
     JInt(5)}

\* the values of contexts: no key, no list, and the lists of up to two records
ContextsVals ==
    {Missing, JNull, JList(<<>>)}
    \cup {JList(<<r>>) : r \in RecordVals}
    \cup {JList(<<r1, r2>>) : r1, r2 \in RecordVals}

PersonalityGood ==
    JObj(("curiosity" :> JFloat(Cent(60))) @@ ("recovery" :> JFloat(Cent(40))))

\* the values of personality: no key, an unknown key, no dict, a curiosity
\* that is no number
PersonalityVals ==
    {Missing,
     JObj(("curiosity" :> JFloat(Cent(60))) @@ ("recovery" :> JFloat(Cent(40)))
          @@ ("mood" :> JStr("x"))),
     JNull,
     JObj(("curiosity" :> JStr("abc")) @@ ("recovery" :> JFloat(Cent(40))))}

VersionVals ==
    {Missing, JInt(0), JInt(1), JInt(2), JFloat(Cent(150)), JStr("2"), JNull}

SavedAtVals == {"2026-01-01T00:00:00+00:00", "2026-01-02T00:00:00+00:00"}
CcfVersionVals == {"0.1.4", "0.2.0"}

\* version and personality: at most one of them departs from what save writes
TopVals ==
    {<<ver, PersonalityGood>> : ver \in VersionVals}
    \cup {<<JInt(1), pers>> : pers \in PersonalityVals}

\* the top-level objects of the model
SnapshotDocs ==
    {JObj(Field("version", top[1]) @@ Field("personality", top[2])
          @@ Field("contexts", ctx) @@ Field("saved_at", JStr(at))
          @@ Field("ccf_version", JStr(tag)) @@ Field("future_field", extra)) :
        top \in TopVals, ctx \in ContextsVals, at \in SavedAtVals,
        tag \in CcfVersionVals, extra \in {Missing, JInt(7)}}

\* JSON documents whose top level is no object
NonObjectDocs == {JList(<<>>), JInt(3), JNull, JStr("x")}

\* what a file at the destination may hold: bytes that are no text, an empty
\* or truncated document, and the documents above
FileContents ==
    {InvalidUtf8}
    \cup {SubSeq(Doc(JObj(EmptyDict)), 1, n) : n \in 0..(Chunks - 1)}
    \cup {Doc(j) : j \in NonObjectDocs \cup SnapshotDocs}

\* no file at the destination, or one of the files above
InitLoad ==
    /\ \/ files = [n \in Names |-> Absent]
       \/ files \in {[n \in Names |-> IF n = Dest THEN c ELSE Absent] :
                        c \in FileContents}
    /\ pc = "idle"
    /\ state = 0
    /\ tmp_path = "none"
    /\ exc = "none"
    /\ before = Absent
    /\ ArgIdle
    /\ call = NoCall
    /\ AccIdle
    /\ FieldIdle
    /\ PhaseIdle
    /\ RunIdle
    /\ OllamaIdle
    /\ DriverIdle

\* a reader that opens the file for appending
Load_creates_file(p) ==
    /\ call' = [name |-> "load", args |-> <<p>>, ret |-> load(files[p])]
    /\ files' = [files EXCEPT ![p] = IF @ = Absent THEN <<>> ELSE @]
    /\ UNCHANGED <<pc, state, tmp_path, exc, before,
                   accVars, fieldVars, phaseVars, runVars, argVars, ollamaVars, driverVars>>

\* CcfPersistence.load(path): it reads the file and writes nothing
Load(p) ==
    /\ call' = [name |-> "load", args |-> <<p>>, ret |-> load(files[p])]
    /\ UNCHANGED <<saveVars, accVars, fieldVars, phaseVars, runVars, argVars, ollamaVars, driverVars>>

NextLoad == \E p \in Names : Load(p)

SpecLoad == InitLoad /\ [][NextLoad]_vars

\* what a call of load was given
Loaded == files[call.args[1]]

\* load was called on a file that json.load parses into a dict
ParsedDict ==
    /\ call.name = "load"
    /\ Loaded # Absent
    /\ is_utf8(Loaded)
    /\ is_json(Loaded)
    /\ Loaded[1][1].t = "dict"

\* C13: for every file whose content is not a well-formed snapshot document
\* (bytes that are not valid UTF-8, text that is not valid JSON, valid JSON
\* whose top level is not an object, or an object whose version, personality
\* or contexts field has the wrong type), Load returns (None, None) and
\* raises no error; IncompatibleSchema is the only error Load ever raises.
\* (A file that states a numeric version above 1 is left to C15.)
C13_MalformedIsNone ==
    call.name = "load" =>
        LET top == Loaded[1][1]
            wrong(k, types) == k \in DOMAIN top.v /\ top.v[k].t \notin types
            newer == /\ "version" \in DOMAIN top.v
                     /\ top.v["version"].t \in {"int", "float"}
                     /\ py_gt(top.v["version"], 1).v
            malformed ==
                /\ Loaded # Absent
                /\ \/ ~is_utf8(Loaded)
                   \/ ~is_json(Loaded)
                   \/ top.t # "dict"
                   \/ /\ ~newer
                      /\ \/ wrong("version", {"int", "float"})
                         \/ wrong("personality", {"dict"})
                         \/ wrong("contexts", {"list"})
        IN /\ call.ret.raises \in {"none", "CcfLoadError"}
           /\ malformed => call.ret = NoneNone

\* C14: Load of a path where no file exists returns (None, None), raises no
\* error and creates or changes no file.
C14_MissingFile ==
    /\ []((call.name = "load" /\ Loaded = Absent) => call.ret = NoneNone)
    /\ [][call'.name = "load" => files' = files]_vars

\* load was called on the destination while the directory was empty
C14_Witness ==
    /\ call.name = "load"
    /\ call.args = <<Dest>>
    /\ \A n \in Names : files[n] = Absent
    /\ call.ret.none
    /\ call.ret.raises = "none"

\* C15: for every parseable snapshot file whose version field is greater
\* than the supported schema version (1), Load raises CcfLoadError and
\* returns no accumulators or personality, whatever the rest of the file
\* contains; for a version of 1 or less, or an absent version field, Load
\* does not raise CcfLoadError.
C15_IncompatibleSchema ==
    ParsedDict =>
        LET top == Loaded[1][1].v
            numeric == /\ "version" \in DOMAIN top
                       /\ top["version"].t \in {"int", "float"}
            newer == /\ numeric
                     /\ IF top["version"].t = "int"
                        THEN top["version"].v > 1
                        ELSE top["version"].v > ONE
        IN /\ newer => call.ret = Raises("CcfLoadError")
           /\ ("version" \notin DOMAIN top \/ (numeric /\ ~newer))
                  => call.ret.raises # "CcfLoadError"

\* a file of version 2 whose contexts are no list was refused
C15_Witness ==
    /\ ParsedDict
    /\ call.ret.raises = "CcfLoadError"
    /\ "version" \in DOMAIN Loaded[1][1].v
    /\ Loaded[1][1].v["version"] = JInt(2)
    /\ "contexts" \in DOMAIN Loaded[1][1].v
    /\ Loaded[1][1].v["contexts"] = JNull

\* C16: in an otherwise valid snapshot file, a record that is missing any
\* required sub-field (ctx_hash, coherence, earned_floor, interaction_count)
\* or has a wrongly typed one is left out of the loaded population, and every
\* well-formed record of the same file is still loaded with its own values.
C16_MalformedRecordSkipped ==
    LET top == Loaded[1][1].v
        recs == top["contexts"].v
        typed(r, k, types) == k \in DOMAIN r.v /\ r.v[k].t \in types
        wellformed(r) ==
            /\ r.t = "dict"
            /\ typed(r, "ctx_hash", {"int"})
            /\ typed(r, "coherence", {"float", "int"})
            /\ typed(r, "earned_floor", {"float", "int"})
            /\ typed(r, "interaction_count", {"int"})
            /\ "last_phase" \in DOMAIN r.v => r.v["last_phase"].t = "str"
        valid ==
            /\ ParsedDict
            /\ "version" \in DOMAIN top => top["version"] \in {JInt(0), JInt(1)}
            /\ "personality" \in DOMAIN top =>
                   /\ top["personality"].t = "dict"
                   /\ \A k \in DOMAIN top["personality"].v :
                          top["personality"].v[k].t = "float"
            /\ "contexts" \in DOMAIN top
            /\ top["contexts"].t = "list"
        kept == {i \in 1..Len(recs) : wellformed(recs[i])}
        last(h) == CHOOSE i \in kept :
                       /\ recs[i].v["ctx_hash"].v = h
                       /\ \A j \in kept :
                              recs[j].v["ctx_hash"].v = h => j <= i
    IN valid =>
           /\ call.ret.raises = "none"
           /\ ~call.ret.none
           /\ DOMAIN call.ret.accumulators
                  = {recs[i].v["ctx_hash"].v : i \in kept}
           /\ \A h \in DOMAIN call.ret.accumulators :
                  LET r == recs[last(h)].v
                      got == call.ret.accumulators[h]
                  IN /\ got.coherence = py_float(r["coherence"]).v
                     /\ got.earned_floor = py_float(r["earned_floor"]).v
                     /\ got.interaction_count = r["interaction_count"].v
                     /\ "last_phase" \in DOMAIN r
                            => got.last_phase = r["last_phase"].v

\* the keys load reads at the top level and in personality
TopKeys == {"version", "ccf_version", "saved_at", "personality", "contexts"}
PersonalityKeys == {"curiosity", "recovery"}

\* C17: for any valid saved file, adding unknown extra fields at the top
\* level or inside any record leaves the result of Load identical to the
\* result for the unmodified file: same hashes, same coherence, earned_floor,
\* interaction_count, last_phase and same personality.
C17_UnknownFieldsIgnored ==
    ParsedDict =>
        LET only(d, keys) == JObj([k \in DOMAIN d.v \cap keys |-> d.v[k]])
            top == Loaded[1][1]
            unmodified ==
                JObj([k \in DOMAIN top.v \cap TopKeys |->
                        IF k = "contexts" /\ top.v[k].t = "list"
                        THEN JList([i \in 1..Len(top.v[k].v) |->
                                      IF top.v[k].v[i].t = "dict"
                                      THEN only(top.v[k].v[i], RecordKeys)
                                      ELSE top.v[k].v[i]])
                        ELSE IF k = "personality" /\ top.v[k].t = "dict"
                        THEN only(top.v[k], PersonalityKeys)
                        ELSE top.v[k]])
        IN call.ret = load(Doc(unmodified))

\* a file with an unknown key at the top level and one inside its only
\* record, loaded with that record's values
C17_Witness ==
    /\ ParsedDict
    /\ "future_field" \in DOMAIN Loaded[1][1].v
    /\ "contexts" \in DOMAIN Loaded[1][1].v
    /\ Loaded[1][1].v["contexts"].t = "list"
    /\ Len(Loaded[1][1].v["contexts"].v) = 1
    /\ Loaded[1][1].v["contexts"].v[1].t = "dict"
    /\ "note" \in DOMAIN Loaded[1][1].v["contexts"].v[1].v
    /\ call.ret.raises = "none"
    /\ DOMAIN call.ret.accumulators = {0}
    /\ call.ret.accumulators[0].coherence = 400000
    /\ call.ret.accumulators[0].last_phase = "QuietlyBeloved"

\* C18: two snapshot files that differ only in the value of saved_at (or of
\* ccf_version) produce identical Load results: the timestamp and the
\* version tag never influence the loaded accumulators or personality.
C18_SavedAtIgnored ==
    ParsedDict =>
        \A at \in SavedAtVals, tag \in CcfVersionVals :
            LET top == Loaded[1][1]
                other == JObj([k \in DOMAIN top.v |->
                                 IF k = "saved_at" THEN JStr(at)
                                 ELSE IF k = "ccf_version" THEN JStr(tag)
                                 ELSE top.v[k]])
            IN load(Doc(other)) = call.ret

\* a file with the later timestamp and the other version tag was loaded
\* with its record and its personality
C18_Witness ==
    /\ ParsedDict
    /\ Loaded[1][1].v["saved_at"] = JStr("2026-01-02T00:00:00+00:00")
    /\ Loaded[1][1].v["ccf_version"] = JStr("0.2.0")
    /\ call.ret.raises = "none"
    /\ DOMAIN call.ret.accumulators = {0, 1}
    /\ call.ret.personality = [curiosity |-> 600000, recovery |-> 400000]

\* _Accumulator.from_dict(data)
from_dict(data) ==
    [coherence |-> py_float(dict_get(data, "coherence", JFloat(0))).v,
     earned_floor |-> py_float(dict_get(data, "earned_floor", JFloat(0))).v,
     interaction_count |->
         py_int(dict_get(data, "interaction_count", JInt(0))).v]

\* the accumulator dict load stores for a record, as a Python value
as_dict(r) ==
    JObj(("coherence" :> JFloat(r.coherence))
         @@ ("earned_floor" :> JFloat(r.earned_floor))
         @@ ("interaction_count" :> JInt(r.interaction_count))
         @@ ("last_phase" :> JStr(r.last_phase)))

\* C19: the data-model invariant holds always, also for restored state:
\* every accumulator record that Load returns from any file it accepts without
\* error, and every accumulator rebuilt from such a record, satisfies
\* 0 <= earned_floor <= coherence <= 1 and interaction_count >= 0.
C19_RestoredInvariant ==
    (call.name = "load" /\ call.ret.raises = "none" /\ ~call.ret.none) =>
        \A h \in DOMAIN call.ret.accumulators :
            LET r == call.ret.accumulators[h]
                a == from_dict(as_dict(r))
            IN /\ 0 <= r.earned_floor
               /\ r.earned_floor <= r.coherence
               /\ r.coherence <= ONE
               /\ r.interaction_count >= 0
               /\ 0 <= a.earned_floor
               /\ a.earned_floor <= a.coherence
               /\ a.coherence <= ONE
               /\ a.interaction_count >= 0

---------------------------------------------------------------------------
(* CcfPersistence.save followed by load (SpecRoundTrip) *)

\* a writer that stores the earned floor under both keys
save_record_floor_twice(ctx_hash, a) ==
    JObj(("ctx_hash" :> JInt(py_int(ctx_hash).v))
         @@ ("coherence" :> JFloat(py_float(subscript(a, "earned_floor").v).v))
         @@ ("earned_floor" :>
                 JFloat(py_float(subscript(a, "earned_floor").v).v))
         @@ ("interaction_count" :>
                 JInt(py_int(subscript(a, "interaction_count").v).v))
         @@ ("last_phase" :>
                 JStr(py_str(dict_get(a, "last_phase",
                                      JStr("ShyObserver"))).v)))

\* the record save writes for one item of accumulators.items()
save_record(ctx_hash, a) ==
    JObj(("ctx_hash" :> JInt(py_int(ctx_hash).v))
         @@ ("coherence" :> JFloat(py_float(subscript(a, "coherence").v).v))
         @@ ("earned_floor" :>
                 JFloat(py_float(subscript(a, "earned_floor").v).v))
         @@ ("interaction_count" :>
                 JInt(py_int(subscript(a, "interaction_count").v).v))
         @@ ("last_phase" :>
                 JStr(py_str(dict_get(a, "last_phase",
                                      JStr("ShyObserver"))).v)))

\* the state dict save builds; a dict argument is the sequence of its items
\* in insertion order, and now is datetime.now(timezone.utc).isoformat()
save_state(items, personality, now, ccf_version) ==
    JObj(("version" :> JInt(CCF_SCHEMA_VERSION))
         @@ ("ccf_version" :> JStr(ccf_version))
         @@ ("saved_at" :> JStr(now))
         @@ ("personality" :>
                 JObj(("curiosity" :>
                          JFloat(py_float(dict_get(personality, "curiosity",
                                                   JFloat(Cent(50)))).v))
                      @@ ("recovery" :>
                          JFloat(py_float(dict_get(personality, "recovery",
                                                   JFloat(Cent(50)))).v))))
         @@ ("contexts" :>
                 JList([i \in 1..Len(items) |->
                          save_record(items[i][1], items[i][2])])))

\* accumulator dicts as the caller holds them: a fresh one without its
\* phase, and two with earned trust
AccDicts ==
    {JObj(("coherence" :> JFloat(0)) @@ ("earned_floor" :> JFloat(0))
          @@ ("interaction_count" :> JInt(0))),
     JObj(("coherence" :> JFloat(Cent(54))) @@ ("earned_floor" :> JFloat(Cent(15)))
          @@ ("interaction_count" :> JInt(12))
          @@ ("last_phase" :> JStr("BuildingTrust"))),
     JObj(("coherence" :> JFloat(ONE)) @@ ("earned_floor" :> JFloat(Cent(54)))
          @@ ("interaction_count" :> JInt(30))
          @@ ("last_phase" :> JStr("QuietlyBeloved")))}

\* the populations of zero, one and two accumulators with distinct hashes
Populations ==
    {<<>>}
    \cup {<<<<JInt(h), a>>>> : h \in Hashes, a \in AccDicts}
    \cup {<<<<JInt(hs[1]), a1>>, <<JInt(hs[2]), a2>>>> :
             hs \in {pair \in Hashes \X Hashes : pair[1] # pair[2]},
             a1 \in AccDicts, a2 \in AccDicts}

Personalities ==
    {JObj(Field("curiosity", c) @@ Field("recovery", r)) :
        c \in {Missing, JFloat(0), JFloat(ONE)},
        r \in {Missing, JFloat(Cent(50))}}

\* the destination holds nothing, bytes that are no text, a truncated
\* document or an earlier snapshot; the caller holds a population
InitRoundTrip ==
    /\ \/ files = [n \in Names |-> Absent]
       \/ files \in {[n \in Names |-> IF n = Dest THEN c ELSE Absent] :
                        c \in {InvalidUtf8,
                               SubSeq(Doc(JObj(EmptyDict)), 1, Chunks - 1),
                               Doc(save_state(<<>>, JObj(EmptyDict),
                                              "2025-12-31T00:00:00+00:00",
                                              "0.1.3"))}}
    /\ pc = "idle"
    /\ state = 0
    /\ tmp_path = "none"
    /\ exc = "none"
    /\ before = Absent
    /\ save_accumulators \in Populations
    /\ save_personality \in Personalities
    /\ call = NoCall
    /\ AccIdle
    /\ FieldIdle
    /\ PhaseIdle
    /\ RunIdle
    /\ OllamaIdle
    /\ DriverIdle

\* CcfPersistence.save(accumulators, personality, path, ccf_version); the
\* callers of the model leave ccf_version at its default, "0.1.4"
CcfPersistence_save(now, ccf_version) ==
    SaveCall(save_state(save_accumulators, save_personality, now, ccf_version))

NextRoundTrip ==
    \/ \E now \in SavedAtVals : CcfPersistence_save(now, "0.1.4")
    \/ \E t \in TmpNames : Mkstemp(t)
    \/ MkstempFails
    \/ Write
    \/ WriteFails
    \/ Replace
    \/ ReplaceFails
    \/ Cleanup
    \/ Load(Dest)

SpecRoundTrip == InitRoundTrip /\ [][NextRoundTrip]_vars

\* C12: for any population of N >= 0 accumulators with distinct integer
\* hashes and any personality, a successful Save followed by Load of the same
\* path returns exactly the saved set of hashes, with each record's
\* coherence, earned_floor, interaction_count and last_phase and both
\* personality values equal to the saved ones (so each restored accumulator's
\* EffectiveCoherence equals the original for every instant), whatever the
\* destination file held before the Save.  A value the caller left out of a
\* dict has no saved counterpart and is not compared.
C12_RoundTrip ==
    [][(/\ pc = "returned"
        /\ pc' = "returned"
        /\ call'.name = "load"
        /\ call'.args = <<Dest>>) =>
           LET given == save_accumulators
               got == call'.ret
           IN /\ got.raises = "none"
              /\ ~got.none
              /\ DOMAIN got.accumulators
                     = {given[i][1].v : i \in 1..Len(given)}
              /\ \A i \in 1..Len(given) :
                     LET a == given[i][2].v
                         r == got.accumulators[given[i][1].v]
                     IN /\ r.coherence = a["coherence"].v
                        /\ r.earned_floor = a["earned_floor"].v
                        /\ r.interaction_count = a["interaction_count"].v
                        /\ "last_phase" \in DOMAIN a
                               => r.last_phase = a["last_phase"].v
                        /\ \A instant \in InstantVals :
                               effective_coherence(from_dict(as_dict(r)), instant)
                                   = effective_coherence(from_dict(given[i][2]),
                                                         instant)
              /\ \A k \in DOMAIN save_personality.v :
                     got.personality[k] = save_personality.v[k].v]_vars

\* two accumulators were saved over bytes that were no text, and the load
\* that followed returned both
C12_Witness ==
    /\ pc = "returned"
    /\ before # Absent
    /\ ~is_utf8(before)
    /\ Len(save_accumulators) = 2
    /\ call.name = "load"
    /\ call.args = <<Dest>>
    /\ call.ret.raises = "none"
    /\ DOMAIN call.ret.accumulators = {0, 1}
    /\ call.ret.accumulators[0].coherence = 540000
    /\ call.ret.accumulators[1].coherence = ONE
    /\ call.ret.personality = [curiosity |-> ONE, recovery |-> 500000]

---------------------------------------------------------------------------
(* TextContextKey.context_hash (SpecHash) *)

\* a 32-bit unsigned value h is kept as its halves: h = hi * 2^16 + lo
Word == 65536
U32(hi, lo) == [hi |-> hi, lo |-> lo]

\* _FNV_OFFSET_BASIS = 2166136261 = 33052 * 2^16 + 40389
FNV_OFFSET_BASIS == U32(33052, 40389)
FNV_PRIME == 16777619

\* a ^ b of two non-negative ints
RECURSIVE BitXor(_, _)
BitXor(a, b) ==
    IF a = 0 THEN b
    ELSE IF b = 0 THEN a
    ELSE (((a % 2) + (b % 2)) % 2) + 2 * BitXor(a \div 2, b \div 2)

\* h ^= byte, for a byte below 256
u32_xor(h, byte) == U32(h.hi, BitXor(h.lo, byte))

\* (h * m) & 0xFFFFFFFF for m below 2^32: the product of the halves, carried
u32_mul(h, m) ==
    LET low == h.lo * (m % Word)
    IN U32((h.hi * (m % Word) + h.lo * (m \div Word) + (low \div Word)) % Word,
           low % Word)

\* FNV-1, which multiplies before it xors
fnv1_step(h, byte) == u32_xor(u32_mul(h, FNV_PRIME), byte)

\* h ^= byte; h = (h * _FNV_PRIME) & 0xFFFFFFFF
fnv1a_step(h, byte) == u32_mul(u32_xor(h, byte), FNV_PRIME)

\* for byte_pos in range(4): byte = (v >> (byte_pos * 8)) & 0xFF; ...
\* (the one-element set holds the value of h after this byte)
RECURSIVE fnv1a_value(_, _, _)
fnv1a_value(h, v, byte_pos) ==
    IF byte_pos = 4 THEN h
    ELSE CHOOSE r \in {fnv1a_value(stepped, v, byte_pos + 1) :
                         stepped \in {fnv1a_step(h, (v \div (256^byte_pos)) % 256)}} :
             TRUE

\* for v in values: ...
\* (the one-element set holds the value of h after this v)
RECURSIVE fnv1a_values(_, _)
fnv1a_values(h, values) ==
    IF Len(values) = 0 THEN h
    ELSE CHOOSE r \in {fnv1a_values(hashed, Tail(values)) :
                         hashed \in {fnv1a_value(h, Head(values), 0)}} :
             TRUE

\* _fnv1a(*values)
fnv1a(values) == fnv1a_values(FNV_OFFSET_BASIS, values)

\* context_hash that leaves session_phase out of the hash
context_hash_four_fields(key) == fnv1a(<<key[1], key[2], key[3], key[4]>>)

\* TextContextKey.context_hash() of the key
\* <<topic_domain, conversation_depth, emotional_register, time_of_day,
\*   session_phase>>
context_hash(key) == fnv1a(<<key[1], key[2], key[3], key[4], key[5]>>)

\* the keys __post_init__ accepts
Keys == (0..63) \X (0..2) \X (0..3) \X (0..3) \X (0..2)

\* a frozen TextContextKey has been constructed from fields in range
InitHash ==
    /\ call \in {[name |-> "TextContextKey", args |-> key, ret |-> 0] : key \in Keys}
    /\ AccIdle
    /\ FieldIdle
    /\ PhaseIdle
    /\ RunIdle
    /\ SaveIdle
    /\ OllamaIdle
    /\ DriverIdle

\* key.context_hash() is called on the key, for the first time or again
ContextHash ==
    /\ call.name \in {"TextContextKey", "context_hash"}
    /\ call' = [name |-> "context_hash", args |-> call.args,
                ret |-> context_hash(call.args)]
    /\ UNCHANGED <<accVars, fieldVars, phaseVars, runVars, saveVars, argVars,
                 ollamaVars, driverVars>>

NextHash == ContextHash

SpecHash == InitHash /\ [][NextHash]_vars

\* C20: context_hash is a pure function of the five fields: it equals 32-bit
\* FNV-1a (offset basis 2166136261, prime 16777619, arithmetic modulo 2^32)
\* applied byte by byte to the little-endian 4-byte encoding of
\* topic_domain, conversation_depth, emotional_register, time_of_day,
\* session_phase in that order; repeated calls return the same value, keys
\* with equal fields hash equal, and the result is always in [0, 2^32-1].
\* The value of every call is the one the formula gives for its key, so it
\* depends on nothing else; the all-zero key hashes to 3120489557 and the
\* key (32, 1, 0, 1, 1) to 3700239428.
C20_ContextHash ==
    call.name = "context_hash" =>
        LET key == call.args
            bytes == [i \in 1..20 |->
                        LET v == key[((i - 1) \div 4) + 1]
                            k == (i - 1) % 4
                        IN IF k = 0 THEN v % 256
                           ELSE IF k = 1 THEN (v \div 256) % 256
                           ELSE IF k = 2 THEN (v \div 65536) % 256
                           ELSE (v \div 16777216) % 256]
            RECURSIVE hashed(_)
            hashed(i) ==
                IF i = 0 THEN U32(33052, 40389)
                ELSE CHOOSE r \in {u32_mul(u32_xor(prev, bytes[i]), 16777619) :
                                      prev \in {hashed(i - 1)}} : TRUE
        IN /\ call.ret = hashed(20)
           /\ call.ret.hi \in 0..65535
           /\ call.ret.lo \in 0..65535
           /\ key = <<0, 0, 0, 0, 0>> => call.ret = U32(47614, 58453)
           /\ key = <<32, 1, 0, 1, 1>> => call.ret = U32(56461, 11332)

\* the key of the fail-open path (32, 1, 0, 1, 1) was hashed to 3700239428
C20_Witness ==
    /\ call.name = "context_hash"
    /\ call.args = <<32, 1, 0, 1, 1>>
    /\ call.ret = U32(56461, 11332)

---------------------------------------------------------------------------
(* TextContextKey: construction and from_text (text_context_key.py) *)

\* a text is the set of words text.split() yields; these are the words of
\* the model, with capitals and punctuation among them
RawWords == {"compound", "interest?", "Tax", "love!", "friend", "now",
             "anxiety", "hello"}

\* str.lower() of a word
lower(w) == IF w = "Tax" THEN "tax" ELSE w

\* word.strip(".,?!;:'\"")
strip(w) ==
    CASE w = "interest?" -> "interest"
      [] w = "love!" -> "love"
      [] OTHER -> w

\* _KEYWORD_CLUSTERS
KEYWORD_CLUSTERS == <<
    <<{"finance", "money", "invest", "stock", "market", "budget", "saving",
       "wealth", "portfolio", "dividend", "compound", "interest", "bond",
       "fund", "personal", "financial"}, 0>>,
    <<{"tax", "taxation", "irs", "deduction", "filing", "return", "income",
       "withhold"}, 1>>,
    <<{"estate", "inheritance", "will", "trust", "beneficiary", "probate",
       "planning", "heir"}, 2>>,
    <<{"crypto", "bitcoin", "ethereum", "blockchain", "defi", "nft", "token",
       "wallet", "cryptocurrency"}, 3>>,
    <<{"health", "exercise", "fitness", "gym", "workout", "diet", "nutrition",
       "weight", "run", "yoga", "meditat"}, 4>>,
    <<{"medical", "doctor", "symptom", "diagnosis", "treatment", "medication",
       "hospital", "surgery", "therapy"}, 5>>,
    <<{"mental", "anxiety", "depression", "stress", "counseling",
       "psychology", "mindful", "emotional", "wellbeing"}, 6>>,
    <<{"sleep", "insomnia", "rest", "fatigue", "tired", "nap", "circadian"}, 7>>,
    <<{"code", "programming", "software", "developer", "python", "javascript",
       "rust", "algorithm", "debug", "git"}, 8>>,
    <<{"ai", "artificial", "intelligence", "machine", "learning", "neural",
       "model", "llm", "gpt", "claude"}, 9>>,
    <<{"robot", "autonomous", "sensor", "embedded", "hardware",
       "microcontroller"}, 10>>,
    <<{"cloud", "aws", "azure", "gcp", "kubernetes", "docker", "devops",
       "deploy"}, 11>>,
    <<{"relationship", "partner", "dating", "marriage", "divorce", "breakup",
       "love", "romance", "attraction"}, 12>>,
    <<{"family", "parent", "child", "sibling", "mother", "father",
       "children"}, 13>>,
    <<{"friend", "friendship", "social", "community", "networking",
       "connection"}, 14>>,
    <<{"conflict", "argument", "disagree", "boundary", "communication",
       "assertive"}, 15>>,
    <<{"career", "job", "work", "resume", "interview", "salary", "promotion",
       "workplace", "professional"}, 16>>,
    <<{"startup", "entrepreneur", "business", "venture", "founder",
       "company"}, 17>>,
    <<{"management", "leadership", "team", "meeting", "productivity",
       "agile"}, 18>>,
    <<{"creative", "design", "art", "write", "writing", "author", "paint",
       "draw"}, 19>>,
    <<{"study", "learn", "course", "university", "school", "education",
       "degree"}, 20>>,
    <<{"science", "research", "experiment", "hypothesis", "data",
       "analysis"}, 21>>,
    <<{"math", "calculus", "algebra", "statistic", "probability",
       "number"}, 22>>,
    <<{"history", "historical", "ancient", "civilization", "war",
       "empire"}, 23>>,
    <<{"food", "cook", "recipe", "restaurant", "eat", "cuisine", "meal"}, 24>>,
    <<{"travel", "trip", "vacation", "flight", "hotel", "country",
       "abroad"}, 25>>,
    <<{"home", "house", "interior", "renovate", "garden", "decor",
       "furniture"}, 26>>,
    <<{"hobby", "game", "sport", "music", "movie", "book",
       "entertainment"}, 27>>,
    <<{"philosophy", "ethics", "moral", "value", "meaning", "purpose",
       "existential"}, 28>>,
    <<{"religion", "spiritual", "faith", "belief", "prayer", "god",
       "universe"}, 29>>,
    <<{"politic", "government", "policy", "vote", "democracy",
       "election"}, 30>>,
    <<{"environment", "climate", "sustainable", "eco", "green",
       "carbon"}, 31>> >>

\* the loop of _keyword_cluster from cluster i on, best being the best
\* cluster and score so far (the one-element set holds the new best)
RECURSIVE keyword_cluster_loop(_, _, _)
keyword_cluster_loop(tokens, i, best) ==
    IF i > Len(KEYWORD_CLUSTERS) THEN best.best_cluster
    ELSE LET score == Cardinality(tokens \cap KEYWORD_CLUSTERS[i][1])
         IN CHOOSE r \in {keyword_cluster_loop(tokens, i + 1, b) :
                           b \in {IF score > best.best_score
                                  THEN [best_cluster |-> KEYWORD_CLUSTERS[i][2],
                                        best_score |-> score]
                                  ELSE best}} :
                TRUE

\* _keyword_cluster(text)
keyword_cluster(text) ==
    keyword_cluster_loop({strip(lower(w)) : w \in text}, 1,
                         [best_cluster |-> 32, best_score |-> 0])

WARM_WORDS == {"love", "thank", "grateful", "appreciate", "wonderful", "happy",
               "joy", "friend", "family", "care", "kind", "warm", "nice"}
VULNERABLE_WORDS == {"anxiety", "afraid", "scared", "nervous", "worry",
                     "struggle", "difficult", "hard", "overwhelm", "sad",
                     "loss", "grief", "depressed", "lonely", "alone", "cry",
                     "hurt"}
INTENSE_WORDS == {"urgent", "emergency", "crisis", "panic", "furious", "rage",
                  "hate", "desperate", "critical", "immediately", "now",
                  "must"}

\* EmotionalRegister.from_text(text): the words are not stripped here
EmotionalRegister_from_text(text) ==
    LET words == {lower(w) : w \in text}
    IN IF words \cap INTENSE_WORDS # {} THEN 3
       ELSE IF words \cap VULNERABLE_WORDS # {} THEN 2
       ELSE IF words \cap WARM_WORDS # {} THEN 1
       ELSE 0

\* EmotionalRegister.from_label(label), for labels in lower case
EmotionalRegister_from_label(label) ==
    LET mapping == ("neutral" :> 0) @@ ("warm" :> 1) @@ ("vulnerable" :> 2)
                   @@ ("intense" :> 3)
    IN IF label \in DOMAIN mapping THEN Value(mapping[label])
       ELSE Throws("ValueError")

\* ConversationDepth.from_label(label), for labels in lower case
ConversationDepth_from_label(label) ==
    LET mapping == ("shallow" :> 0) @@ ("moderate" :> 1) @@ ("deep" :> 2)
    IN IF label \in DOMAIN mapping THEN Value(mapping[label])
       ELSE Throws("ValueError")

\* ConversationDepth.from_turn_count(turn_count)
ConversationDepth_from_turn_count(turn_count) ==
    IF turn_count <= 3 THEN 0
    ELSE IF turn_count <= 15 THEN 1
    ELSE 2

\* SessionPhase.from_turn_count with the late phase starting after turn 28
SessionPhase_from_turn_count_late(turn_count) ==
    IF turn_count <= 3 THEN 0
    ELSE IF turn_count <= 28 THEN 1
    ELSE 2

\* SessionPhase.from_turn_count(turn_count)
SessionPhase_from_turn_count(turn_count) ==
    IF turn_count <= 3 THEN 0
    ELSE IF turn_count <= 20 THEN 1
    ELSE 2

\* TimeOfDay.from_hour(hour), which TimeOfDay.now() applies to the local hour
TimeOfDay_from_hour(hour) ==
    IF 5 <= hour /\ hour < 12 THEN 0
    ELSE IF 12 <= hour /\ hour < 17 THEN 1
    ELSE IF 17 <= hour /\ hour < 21 THEN 2
    ELSE 3

\* an argument the caller leaves out
Omitted == [t |-> "omitted"]

\* TextContextKey(...) that clamps each field into its range instead of raising
TextContextKey_clamped(fields) ==
    Value(<<Max(0, Min(63, fields[1])), Max(0, Min(2, fields[2])),
            Max(0, Min(3, fields[3])), Max(0, Min(3, fields[4])),
            Max(0, Min(2, fields[5]))>>)

\* TextContextKey(topic_domain, conversation_depth, emotional_register,
\* time_of_day, session_phase): the dataclass __init__ followed by
\* __post_init__; the key is the tuple of its five fields
TextContextKey(fields) ==
    IF ~(0 <= fields[1] /\ fields[1] <= 63) THEN Throws("ValueError")
    ELSE IF ~(0 <= fields[2] /\ fields[2] <= 2) THEN Throws("ValueError")
    ELSE IF ~(0 <= fields[3] /\ fields[3] <= 3) THEN Throws("ValueError")
    ELSE IF ~(0 <= fields[4] /\ fields[4] <= 3) THEN Throws("ValueError")
    ELSE IF ~(0 <= fields[5] /\ fields[5] <= 2) THEN Throws("ValueError")
    ELSE Value(fields)

\* TextContextKey.from_text(text, depth, register, turn_count) at local hour
\* `hour`, with use_embeddings left False.  A text that is no string has no
\* lower(); a depth left out is the default "moderate".
from_text(text, depth, register, turn_count, hour) ==
    IF text.t # "str" THEN Throws("AttributeError")
    ELSE
    LET topic == keyword_cluster(text.v)
        depth_arg == IF depth.t = "omitted" THEN JStr("moderate") ELSE depth
        depth_int ==
            CASE depth_arg.t = "str" -> ConversationDepth_from_label(depth_arg.v)
              [] depth_arg.t = "int" -> Value(depth_arg.v)
              [] OTHER -> Value(ConversationDepth_from_turn_count(turn_count))
        register_int ==
            CASE register.t = "null" -> Value(EmotionalRegister_from_text(text.v))
              [] register.t = "str" -> EmotionalRegister_from_label(register.v)
              [] OTHER -> py_int(register)
    IN IF depth_int.exc # "none" THEN Throws(depth_int.exc)
       ELSE IF register_int.exc # "none" THEN Throws(register_int.exc)
       ELSE TextContextKey(<<topic, depth_int.v, register_int.v,
                             TimeOfDay_from_hour(hour),
                             SessionPhase_from_turn_count(turn_count)>>)

---------------------------------------------------------------------------
(* Keys constructed and derived from arbitrary arguments (SpecKey) *)

\* field values inside, on and next to the ends of every range
FieldTuples == {-1, 0, 32, 63, 64} \X {-1, 0, 2, 3} \X {-1, 0, 3, 4}
               \X {-1, 0, 3, 4} \X {-1, 0, 2, 3}

\* the texts of at most two words, and None
Texts == {JNull} \cup {JStr(t) : t \in {s \in SUBSET RawWords : Cardinality(s) <= 2}}

DepthArgs == {Omitted, JNull, JStr("shallow"), JStr("deep"), JStr("bogus"),
              JInt(0), JInt(2), JInt(3)}
RegisterArgs == {JNull, JStr("warm"), JStr("bogus"), JInt(2), JInt(7)}
\* turn counts on and next to the breakpoints 3, 15 and 20
TurnTicks == {0, 3, 4, 15, 16, 20, 21, 30}
\* local hours on and next to the breakpoints 5, 12, 17 and 21
Hours == {4, 5, 12, 17, 21}

\* a call whose arguments are chosen and which has not run yet
Pending == [exc |-> "pending", v |-> 0]

InitKey ==
    /\ \/ call \in {[name |-> "TextContextKey", args |-> f, ret |-> Pending] :
                      f \in FieldTuples}
       \/ call \in {[name |-> "from_text", args |-> <<text, depth, register, tc, hour>>,
                     ret |-> Pending] :
                      text \in Texts, depth \in DepthArgs, register \in RegisterArgs,
                      tc \in TurnTicks, hour \in Hours}
    /\ AccIdle
    /\ FieldIdle
    /\ PhaseIdle
    /\ RunIdle
    /\ SaveIdle
    /\ OllamaIdle
    /\ DriverIdle

\* TextContextKey(...) runs
Construct ==
    /\ call.name = "TextContextKey"
    /\ call.ret = Pending
    /\ call' = [call EXCEPT !.ret = TextContextKey(call.args)]
    /\ UNCHANGED <<accVars, fieldVars, phaseVars, runVars, saveVars, argVars,
                 ollamaVars, driverVars>>

\* TextContextKey.from_text(...) runs
FromText ==
    /\ call.name = "from_text"
    /\ call.ret = Pending
    /\ call' = [call EXCEPT !.ret = from_text(call.args[1], call.args[2],
                                              call.args[3], call.args[4],
                                              call.args[5])]
    /\ UNCHANGED <<accVars, fieldVars, phaseVars, runVars, saveVars, argVars,
                 ollamaVars, driverVars>>

NextKey == Construct \/ FromText

SpecKey == InitKey /\ [][NextKey]_vars

\* C21: constructing a fingerprint succeeds if and only if topic_domain is in
\* 0..63, conversation_depth in 0..2, emotional_register in 0..3, time_of_day
\* in 0..3 and session_phase in 0..2; otherwise construction fails with the
\* out-of-range error (ValueError) and no value is clamped, so every existing
\* fingerprint, from_text's included, has all five fields in range.
C21_RangeChecked ==
    LET inrange(f) == /\ f[1] \in 0..63
                      /\ f[2] \in 0..2
                      /\ f[3] \in 0..3
                      /\ f[4] \in 0..3
                      /\ f[5] \in 0..2
    IN /\ (call.name = "TextContextKey" /\ call.ret # Pending) =>
              /\ inrange(call.args) <=> call.ret.exc = "none"
              /\ inrange(call.args) => call.ret.v = call.args
              /\ ~inrange(call.args) => call.ret = Throws("ValueError")
       /\ (call.name = "from_text" /\ call.ret.exc = "none") =>
              inrange(call.ret.v)

\* a construction with only session_phase out of range (3) has failed
C21_Witness ==
    /\ call.name = "TextContextKey"
    /\ call.args = <<63, 2, 3, 3, 3>>
    /\ call.ret = Throws("ValueError")

\* C22: when from_text is called without an explicit depth,
\* conversation_depth is derived from turn_count: shallow (0) for
\* turn_count <= 3, moderate (1) for turn_count <= 15, deep (2) otherwise; an
\* explicitly given depth is used as given.
C22_DepthFromTurnCount ==
    (call.name = "from_text" /\ call.ret.exc = "none") =>
        LET depth == call.args[2]
            turn_count == call.args[4]
            labels == ("shallow" :> 0) @@ ("moderate" :> 1) @@ ("deep" :> 2)
        IN /\ depth.t = "omitted" =>
                  call.ret.v[2] = (IF turn_count <= 3 THEN 0
                                   ELSE IF turn_count <= 15 THEN 1 ELSE 2)
           /\ depth.t = "int" => call.ret.v[2] = depth.v
           /\ depth.t = "str" => call.ret.v[2] = labels[depth.v]

(***************************************************************************)
(* Claims about the population's counts and frames                         *)
(***************************************************************************)

\* C23: for every context hash, interaction_count counts the recorded events:
\* a positive_interaction or negative_interaction on a hash adds exactly one
\* to that hash's count and nothing to any other, a read adds nothing, and
\* no step makes a count smaller.
C23_CountsRecordedEvents ==
    [][LET count(accs, h) == IF accs[h] = NoAcc THEN 0 ELSE accs[h].interaction_count
       IN /\ \A h \in Hashes : count(accumulators', h) >= count(accumulators, h)
          /\ call'.name \in {"positive_interaction", "negative_interaction"} =>
                 \A h \in Hashes :
                     count(accumulators', h) =
                         count(accumulators, h) + (IF h = call'.args[1] THEN 1 ELSE 0)
          /\ call'.name \in {"effective_coherence", "raw_coherence", "interaction_count"} =>
                 \A h \in Hashes : count(accumulators', h) = count(accumulators, h)
          /\ call'.name = "interaction_count" =>
                 call'.ret = count(accumulators, call'.args[1])]_vars

C23_Witness ==
    /\ call.name = "negative_interaction"
    /\ call.args = <<1>>
    /\ accumulators[1] # NoAcc
    /\ accumulators[1].interaction_count = 3
    /\ accumulators[0] # NoAcc
    /\ accumulators[0].interaction_count = 2

\* C24: the reads effective_coherence, raw_coherence and interaction_count
\* leave the population as it was: no accumulator field changes, no
\* accumulator is created, and the personality is untouched.
C24_ReadsArePure ==
    [][call'.name \in {"effective_coherence", "raw_coherence", "interaction_count"} =>
           /\ accumulators' = accumulators
           /\ curiosity_drive' = curiosity_drive
           /\ recovery_rate' = recovery_rate]_vars

C24_Witness ==
    /\ call.name = "raw_coherence"
    /\ call.args = <<1>>
    /\ call.ret = 0
    /\ accumulators[1] = NoAcc
    /\ accumulators[0] # NoAcc

\* C25: positive_interaction(h) and negative_interaction(h) create the
\* accumulator of h with all fields zero when it has none and then update
\* that accumulator only: the accumulators of the other hashes, and
\* curiosity_drive and recovery_rate, are as before.
C25_UpdatesOneAccumulator ==
    [][call'.name \in {"positive_interaction", "negative_interaction"} =>
           LET h == call'.args[1]
               zero == [coherence |-> 0, earned_floor |-> 0, interaction_count |-> 0]
               old == IF accumulators[h] = NoAcc THEN zero ELSE accumulators[h]
               gain == (curiosity_drive * 12) \div 100
               decay == (15 * (ONE - recovery_rate)) \div 100
               new == accumulators'[h]
           IN /\ new # NoAcc
              /\ new.interaction_count = old.interaction_count + 1
              /\ call'.name = "positive_interaction" =>
                     /\ new.coherence = Min(ONE, old.coherence + gain)
                     /\ new.earned_floor =
                            Min(new.coherence, old.earned_floor + (3 * gain) \div 10)
              /\ call'.name = "negative_interaction" =>
                     /\ new.coherence = Max(old.earned_floor, old.coherence - decay)
                     /\ new.earned_floor = old.earned_floor
              /\ \A g \in Hashes \ {h} : accumulators'[g] = accumulators[g]
              /\ curiosity_drive' = curiosity_drive
              /\ recovery_rate' = recovery_rate]_vars

C25_Witness ==
    /\ call.name = "positive_interaction"
    /\ call.args = <<0>>
    /\ accumulators[0] # NoAcc
    /\ accumulators[0].interaction_count = 1
    /\ accumulators[0].coherence > 0
    /\ accumulators[1] = NoAcc

---------------------------------------------------------------------------
(* Claims about the rates of the lone accumulator *)

\* C27 as stated: in every PositiveInteraction the rise of earned_floor is at
\* most 30% of the rise of coherence in that operation.
C27_FloorRiseWithinCoherenceRise ==
    [][call'.name = "positive_interaction" =>
           10 * (acc'.earned_floor - acc.earned_floor)
               <= 3 * (acc'.coherence - acc.coherence)]_vars

\* C27: in every PositiveInteraction the rise of earned_floor is at most 30%
\* of the gain curiosity * 0.12, and at most 30% of the rise of coherence
\* whenever coherence + gain does not pass 1.0; where coherence is capped at
\* 1.0 the floor may rise by more than 30% of what coherence rose by.
C27_FloorRiseWithinGain ==
    [][call'.name = "positive_interaction" =>
           LET gain == (call'.args[1] * 12) \div 100
               floor_rise == acc'.earned_floor - acc.earned_floor
               coherence_rise == acc'.coherence - acc.coherence
           IN /\ floor_rise >= 0
              /\ 10 * floor_rise <= 3 * gain
              /\ acc.coherence + gain <= ONE =>
                     /\ coherence_rise = gain
                     /\ 10 * floor_rise <= 3 * coherence_rise
              /\ acc.coherence + gain > ONE => coherence_rise < gain]_vars

\* coherence is held at 1.0 while a positive interaction still raised the floor
C27_Witness ==
    /\ call.name = "positive_interaction"
    /\ call.args = <<ONE>>
    /\ acc.coherence = ONE
    /\ acc.earned_floor = Cent(36)
    /\ acc.interaction_count = 10

---------------------------------------------------------------------------
(* An accumulator built up and then worn down by one repeated call (SpecDecay) *)

\* any positive interaction, before the repetition starts
BuildPositive(curiosity) ==
    /\ decay_recovery = NoRepeat
    /\ acc.interaction_count < MaxBuild
    /\ acc' = positive_interaction(acc, curiosity)
    /\ call' = [name |-> "positive_interaction", args |-> <<curiosity>>, ret |-> 0]
    /\ UNCHANGED accOthers

\* any negative interaction, before the repetition starts
BuildNegative(recovery) ==
    /\ decay_recovery = NoRepeat
    /\ acc.interaction_count < MaxBuild
    /\ acc' = negative_interaction(acc, recovery)
    /\ call' = [name |-> "negative_interaction", args |-> <<recovery>>, ret |-> 0]
    /\ UNCHANGED accOthers

\* the caller's loop: negative_interaction(recovery), with the same recovery each time
RepeatNegative(recovery) ==
    /\ decay_recovery \in {NoRepeat, recovery}
    /\ acc.interaction_count < MaxOps
    /\ acc' = negative_interaction(acc, recovery)
    /\ decay_recovery' = recovery
    /\ call' = [name |-> "negative_interaction", args |-> <<recovery>>, ret |-> 0]
    /\ UNCHANGED <<fieldVars, phaseVars, runVars, saveVars, argVars, ollamaVars,
                   tm_hour, journey_message, ticks, writers>>

NextDecay ==
    \/ \E curiosity \in CuriosityVals : BuildPositive(curiosity)
    \/ \E recovery \in RecoveryVals : BuildNegative(recovery)
    \/ \E recovery \in RecoveryVals : RepeatNegative(recovery)

\* the loop keeps running: its next call is made as long as there is one to make
SpecDecay ==
    /\ InitAcc
    /\ [][NextDecay]_vars
    /\ WF_vars(\E recovery \in RecoveryVals : RepeatNegative(recovery))

\* C28: for recovery < 1, from any accumulator reachable from a fresh one,
\* repeating NegativeInteraction(recovery) leads to coherence = earned_floor
\* exactly, where it then stays under further NegativeInteractions, and
\* coherence is never below earned_floor.
C28_DecaysOntoFloor ==
    /\ [](acc.coherence >= acc.earned_floor)
    /\ \A recovery \in RecoveryVals \ {ONE} :
           (decay_recovery = recovery) ~> (acc.coherence = acc.earned_floor)
    /\ [][(acc.coherence = acc.earned_floor /\ call'.name = "negative_interaction") =>
              acc'.coherence = acc.coherence]_vars
    /\ <>[](decay_recovery \in RecoveryVals \ {ONE} => acc.coherence = acc.earned_floor)

\* the loop with recovery 0.5 has worn a built-up coherence down onto its floor
C28_Witness ==
    /\ decay_recovery = Cent(50)
    /\ call.name = "negative_interaction"
    /\ acc.earned_floor = Cent(27)
    /\ acc.coherence = acc.earned_floor
    /\ acc.interaction_count >= 15

---------------------------------------------------------------------------
(* CcfOllama: chat and record_outcome *)

\* the chats of the journey: one, then thirty more
JourneyChats == 31

\* what _call_ollama does: return a response, or raise
BackendOutcomes == {"ok", "ConnectionError"}

\* the key chat() falls back on when from_text raises
FallbackKey == <<32, 1, 0, 1, 1>>

\* step 1 of chat(): the key given, or the one derived from the message
derive_key(message, context_key, turn_count, hour) ==
    IF context_key # NoContext
    THEN context_key
    ELSE LET derived == from_text(message, Omitted, JNull, turn_count, hour)
         IN IF derived.exc = "none" THEN derived.v ELSE FallbackKey

\* the messages, keys and signals chat() is called with, and the local hours
\* it is called at
Messages == {JNull, JStr({"hello"}), JStr({"compound", "interest?"})}
ExplicitKeys == {<<12, 1, 1, 1, 1>>}
ChatInstants == {Cent(10), ONE}
ClockHours == {12, 21}

\* derive_key, tabulated over those arguments and the turn counts of a journey
derived_keys ==
    [m \in Messages, k \in ExplicitKeys \cup {NoContext}, t \in 0..JourneyChats,
     h \in ClockHours |-> derive_key(m, k, t, h)]

\* the keys a wrapper can meet here
ChatKeys == {derived_keys[x] : x \in DOMAIN derived_keys}

\* context_hash, tabulated over those keys
context_hashes == [k \in ChatKeys |-> context_hash(k)]

\* the hashes a wrapper can meet here
ChatHashes == {context_hashes[k] : k \in ChatKeys}

\* CcfOllama.__init__
CcfOllama(personality_curiosity, personality_recovery, auto_save_arg) ==
    /\ curiosity_drive = personality_curiosity
    /\ recovery_rate = personality_recovery
    /\ \A h \in DOMAIN accumulators : accumulators[h] = NoAcc
    /\ phase = "ShyObserver"
    /\ active_context = NoContext
    /\ last_instant = Cent(70)
    /\ _turn_count = 0
    /\ auto_save = auto_save_arg

\* chat() that lets the exception of _call_ollama through
chat_raising(message, context_key, instant_signal, backend) ==
    \E key \in {derived_keys[message, context_key, _turn_count, tm_hour]} :
    \E ctx_hash \in {context_hashes[key]} :
    \E eff_coh \in {field_effective_coherence(accumulators, ctx_hash, instant_signal)} :
    \E new_phase \in {classify_phase(eff_coh, instant_signal, phase)} :
       /\ active_context' = key
       /\ last_instant' = instant_signal
       /\ phase' = new_phase
       /\ _turn_count' = IF backend = "ok" THEN _turn_count + 1 ELSE _turn_count
       /\ call' = [name |-> "chat",
                   args |-> <<message, context_key, instant_signal, backend>>,
                   ret |-> IF backend # "ok" THEN Throws(backend)
                           ELSE Value([error |-> backend,
                                       ccf |-> [phase |-> new_phase,
                                                coherence |-> field_raw_coherence(accumulators, ctx_hash),
                                                effective_coherence |-> eff_coh,
                                                instant_signal |-> instant_signal,
                                                context_key |-> key,
                                                context_hash |-> ctx_hash,
                                                turn |-> _turn_count + 1]])]
       /\ UNCHANGED <<fieldVars, auto_save, accVars, runVars, saveVars, argVars>>

\* chat() that looks its accumulator up with _get_or_create
chat_creating(message, context_key, instant_signal, backend) ==
    \E key \in {derived_keys[message, context_key, _turn_count, tm_hour]} :
    \E ctx_hash \in {context_hashes[key]} :
    \E eff_coh \in {field_effective_coherence(accumulators, ctx_hash, instant_signal)} :
    \E new_phase \in {classify_phase(eff_coh, instant_signal, phase)} :
    \E turn \in {_turn_count + 1} :
       /\ active_context' = key
       /\ last_instant' = instant_signal
       /\ phase' = new_phase
       /\ _turn_count' = turn
       /\ accumulators' = get_or_create(accumulators, ctx_hash)
       /\ call' = [name |-> "chat",
                   args |-> <<message, context_key, instant_signal, backend>>,
                   ret |-> Value([error |-> backend,
                                  ccf |-> [phase |-> new_phase,
                                           coherence |-> field_raw_coherence(accumulators, ctx_hash),
                                           effective_coherence |-> eff_coh,
                                           instant_signal |-> instant_signal,
                                           context_key |-> key,
                                           context_hash |-> ctx_hash,
                                           turn |-> turn]])]
       /\ UNCHANGED <<curiosity_drive, recovery_rate, auto_save, accVars, runVars,
                      saveVars, argVars>>

\* CcfOllama.chat(message, context_key, instant_signal) with _call_ollama
\* ending as `backend` says
chat(message, context_key, instant_signal, backend) ==
    \E key \in {derived_keys[message, context_key, _turn_count, tm_hour]} :
    \E ctx_hash \in {context_hashes[key]} :
    \E eff_coh \in {field_effective_coherence(accumulators, ctx_hash, instant_signal)} :
    \E new_phase \in {classify_phase(eff_coh, instant_signal, phase)} :
    \E turn \in {_turn_count + 1} :
       /\ active_context' = key
       /\ last_instant' = instant_signal
       /\ phase' = new_phase
       /\ _turn_count' = turn
       /\ call' = [name |-> "chat",
                   args |-> <<message, context_key, instant_signal, backend>>,
                   ret |-> Value([error |-> backend,
                                  ccf |-> [phase |-> new_phase,
                                           coherence |-> field_raw_coherence(accumulators, ctx_hash),
                                           effective_coherence |-> eff_coh,
                                           instant_signal |-> instant_signal,
                                           context_key |-> key,
                                           context_hash |-> ctx_hash,
                                           turn |-> turn]])]
       /\ UNCHANGED <<fieldVars, auto_save, accVars, runVars, saveVars, argVars>>

\* str(k) of a context hash, the key json.dump writes: the decimal numeral
\* of k, kept as the number it spells
py_str_of_hash(h) == [numeral |-> h]

\* int(key_str) of a key that json.load returned
py_int_of_key(key_str) == Value(key_str.numeral)

\* to_dict that leaves the interaction count out
Accumulator_to_dict_uncounted(a) ==
    JObj(("coherence" :> JFloat(a.coherence))
         @@ ("earned_floor" :> JFloat(a.earned_floor)))

\* _Accumulator.to_dict
Accumulator_to_dict(a) ==
    JObj(("coherence" :> JFloat(a.coherence))
         @@ ("earned_floor" :> JFloat(a.earned_floor))
         @@ ("interaction_count" :> JInt(a.interaction_count)))

\* CoherenceFieldPy.to_dict
CoherenceFieldPy_to_dict(accs, curiosity, recovery) ==
    JObj(("curiosity_drive" :> JFloat(curiosity))
         @@ ("recovery_rate" :> JFloat(recovery))
         @@ ("accumulators" :>
                JObj([s \in {py_str_of_hash(h) :
                                h \in {x \in DOMAIN accs : accs[x] # NoAcc}} |->
                         Accumulator_to_dict(accs[s.numeral])])))

\* the names of the five fields of a key, in order
KeyFields ==
    <<"topic_domain", "conversation_depth", "emotional_register",
      "time_of_day", "session_phase">>

\* the dict `state` of CcfOllama.save, as json.dump writes it and json.load
\* returns it; model and base_url are the defaults
state_dict(social_phase, turn_count, accs, curiosity, recovery, context) ==
    JObj(("model" :> JStr("llama3"))
         @@ ("base_url" :> JStr("http://localhost:11434"))
         @@ ("phase" :> JStr(social_phase))
         @@ ("turn_count" :> JInt(turn_count))
         @@ ("field" :> CoherenceFieldPy_to_dict(accs, curiosity, recovery))
         @@ ("active_context" :>
                IF context = NoContext THEN JNull
                ELSE JObj([f \in {KeyFields[i] : i \in 1..5} |->
                             JInt(context[CHOOSE i \in 1..5 : KeyFields[i] = f])])))

\* the state file after the save() that ends a step
ollama_state ==
    <<"ollama", state_dict(phase', _turn_count', accumulators', curiosity_drive',
                           recovery_rate', active_context')>>

\* CcfOllama.record_outcome(positive), with the save it ends in succeeding
\* or failing as `disk` says
record_outcome(positive, disk) ==
    /\ call' = [name |-> "record_outcome", args |-> <<positive, disk>>, ret |-> 0]
    /\ UNCHANGED <<curiosity_drive, recovery_rate, phaseVars, ollamaVars,
                   accVars, runVars, argVars, pc, state, tmp_path, exc, before>>
    /\ IF active_context = NoContext
       THEN UNCHANGED <<accumulators, files>>
       ELSE \E ctx_hash \in {context_hashes[active_context]} :
            LET accs == get_or_create(accumulators, ctx_hash)
            IN /\ accumulators' =
                      [accs EXCEPT ![ctx_hash] =
                           IF positive THEN positive_interaction(@, curiosity_drive)
                           ELSE negative_interaction(@, recovery_rate)]
               /\ IF auto_save /\ disk = "ok"
                  THEN files' = [files EXCEPT ![Dest] = ollama_state]
                  ELSE UNCHANGED files

---------------------------------------------------------------------------
(* A wrapper called with arbitrary arguments (SpecChat) *)

InitChat ==
    /\ accumulators \in [ChatHashes -> {NoAcc}]
    /\ \E c \in {Cent(50), ONE}, a \in BOOLEAN : CcfOllama(c, Cent(50), a)
    /\ call = NoCall
    /\ AccIdle
    /\ RunIdle
    /\ SaveIdle
    /\ DriverIdle

Chat(message, context_key, instant_signal, backend) ==
    /\ _turn_count < MaxChats
    /\ chat(message, context_key, instant_signal, backend)
    /\ UNCHANGED driverVars

RecordOutcome(positive, disk) ==
    /\ Recorded(accumulators, ChatHashes) < MaxOutcomes
    /\ record_outcome(positive, disk)
    /\ UNCHANGED driverVars

NextChat ==
    \/ \E m \in {JNull, JStr({"hello"})}, i \in ChatInstants, b \in BackendOutcomes :
           Chat(m, NoContext, i, b)
    \/ \E k \in ExplicitKeys, i \in ChatInstants, b \in BackendOutcomes :
           Chat(JStr({"hello"}), k, i, b)
    \/ \E positive \in BOOLEAN, disk \in {"ok", "OSError"} : RecordOutcome(positive, disk)

SpecChat == InitChat /\ [][NextChat]_vars

\* C26: after any history of chats and recorded outcomes on other contexts, a
\* chat with instant_signal >= 0.20 on a context with no recorded interaction
\* reports the phase ShyObserver.
C26_FreshContextIsShy ==
    (/\ call.name = "chat"
     /\ call.args[3] >= Cent(20)
     /\ field_interaction_count(accumulators, call.ret.v.ccf.context_hash) = 0)
        => call.ret.v.ccf.phase = "ShyObserver"

\* C30: when _call_ollama raises, chat() still returns a response with the
\* ccf metadata, whose phase is the one a successful call computes; and every
\* chat(), whatever the backend did, adds exactly one to the turn counter.
C30_ChatFailsOpen ==
    [][call'.name = "chat" =>
           LET instant_signal == call'.args[3]
               key == derived_keys[call'.args[1], call'.args[2], _turn_count, tm_hour]
               ctx_hash == context_hashes[key]
               eff_coh == field_effective_coherence(accumulators, ctx_hash, instant_signal)
               expected == classify_phase(eff_coh, instant_signal, phase)
           IN /\ call'.ret.exc = "none"
              /\ _turn_count' = _turn_count + 1
              /\ phase' = expected
              /\ call'.ret.v.ccf = [phase |-> expected,
                                    coherence |-> field_raw_coherence(accumulators, ctx_hash),
                                    effective_coherence |-> eff_coh,
                                    instant_signal |-> instant_signal,
                                    context_key |-> key,
                                    context_hash |-> ctx_hash,
                                    turn |-> _turn_count + 1]
              /\ call'.ret.v.error = call'.args[4]]_vars

\* a chat whose backend was down moved the wrapper on to QuietlyBeloved
C30_Witness ==
    /\ call.name = "chat"
    /\ call.args[4] = "ConnectionError"
    /\ call.ret.exc = "none"
    /\ call.ret.v.ccf.phase = "QuietlyBeloved"
    /\ call.ret.v.ccf.turn = 3
    /\ phase = "QuietlyBeloved"
    /\ _turn_count = 3

---------------------------------------------------------------------------
(* The journey: chat and record_outcome(positive=True), 31 times (SpecJourney) *)

\* a fresh wrapper with curiosity 0.5; the caller has picked its message, and
\* the wall clock stays in the hour it is in
InitJourney ==
    /\ accumulators \in [ChatHashes -> {NoAcc}]
    /\ \E r \in RecoveryVals, a \in BOOLEAN : CcfOllama(Cent(50), r, a)
    /\ call = NoCall
    /\ AccIdle
    /\ RunIdle
    /\ SaveIdle
    /\ tm_hour \in ClockHours
    /\ decay_recovery = NoRepeat
    /\ journey_message \in Messages
    /\ ticks = <<>>
    /\ writers = <<>>

\* bot.chat(message, instant_signal=0.7)
JourneyChat(backend) ==
    /\ call.name \in {"none", "record_outcome"}
    /\ _turn_count < JourneyChats
    /\ chat(journey_message, NoContext, Cent(70), backend)
    /\ UNCHANGED driverVars

\* bot.record_outcome(positive=True)
JourneyRecord(disk) ==
    /\ call.name = "chat"
    /\ record_outcome(TRUE, disk)
    /\ UNCHANGED driverVars

NextJourney ==
    \/ \E backend \in BackendOutcomes : JourneyChat(backend)
    \/ \E disk \in {"ok", "OSError"} : JourneyRecord(disk)

SpecJourney == InitJourney /\ [][NextJourney]_vars

\* C29: on a fresh wrapper with curiosity 0.5 and the hour of the wall clock
\* unchanged, repeating chat(the same message, instant_signal 0.7) and
\* record_outcome(positive=True) 31 times, the first chat reports
\* ShyObserver and the phase from the 31st chat on is QuietlyBeloved.
C29_JourneyReachesBeloved ==
    /\ (call.name = "chat" /\ _turn_count = 1) =>
           /\ call.ret.v.ccf.phase = "ShyObserver"
           /\ phase = "ShyObserver"
    /\ (call.name = "chat" /\ _turn_count = JourneyChats) =>
           call.ret.v.ccf.phase = "QuietlyBeloved"
    /\ _turn_count = JourneyChats => phase = "QuietlyBeloved"

\* the 31st outcome has been recorded, on the third context of the journey
C29_Witness ==
    /\ call.name = "record_outcome"
    /\ _turn_count = JourneyChats
    /\ phase = "QuietlyBeloved"
    /\ Recorded(accumulators, ChatHashes) = JourneyChats
    /\ active_context[5] = 2
    /\ field_raw_coherence(accumulators, context_hashes[active_context]) = Cent(60)
    /\ journey_message = JStr({"compound", "interest?"})

\* C34: chat() leaves the trust state alone: no accumulator's coherence,
\* earned_floor or interaction_count changes and none is created; a step
\* that changes an accumulator is a record_outcome.
C34_ChatKeepsTrustState ==
    [][/\ call'.name = "chat" =>
              /\ accumulators' = accumulators
              /\ curiosity_drive' = curiosity_drive
              /\ recovery_rate' = recovery_rate
       /\ accumulators' # accumulators => call'.name = "record_outcome"]_vars

\* a chat on a context without accumulator, while another context has earned trust
C34_Witness ==
    /\ call.name = "chat"
    /\ call.ret.v.ccf.coherence = 0
    /\ accumulators[call.ret.v.ccf.context_hash] = NoAcc
    /\ \E h \in ChatHashes : /\ accumulators[h] # NoAcc
                             /\ accumulators[h].coherence > 0

---------------------------------------------------------------------------
(* effective_coherence at two levels of learned coherence (SpecEff) *)

\* learned coherence: every 0.02, and the values next to the switch at 0.3
CoherenceGrid == {Cent(2 * k) : k \in 0..50} \cup {Cent(29), Cent(30) - 1, Cent(30) + 1, Cent(31)}
\* the instant signal: every 0.05
InstantGrid == {Cent(5 * k) : k \in 0..20}

\* two accumulators, one with no more coherence than the other, and an instant
InitEff ==
    /\ call \in {[name |-> "effective_coherence", args |-> <<c1, c2, instant>>,
                  ret |-> Pending] :
                   c1 \in CoherenceGrid, c2 \in CoherenceGrid, instant \in InstantGrid}
    /\ call.args[1] <= call.args[2]
    /\ AccIdle
    /\ FieldIdle
    /\ PhaseIdle
    /\ RunIdle
    /\ SaveIdle
    /\ OllamaIdle
    /\ DriverIdle

\* effective_coherence(instant) on both
EffectiveCoherencePair ==
    /\ call.ret = Pending
    /\ call' = [call EXCEPT !.ret =
                   Value(<<effective_coherence([NewAccumulator EXCEPT !.coherence = call.args[1]],
                                               call.args[3]),
                           effective_coherence([NewAccumulator EXCEPT !.coherence = call.args[2]],
                                               call.args[3])>>)]
    /\ UNCHANGED <<accVars, fieldVars, phaseVars, runVars, saveVars, argVars,
                   ollamaVars, driverVars>>

NextEff == EffectiveCoherencePair

SpecEff == InitEff /\ [][NextEff]_vars

\* C35: for a fixed instant in [0,1], effective_coherence does not decrease
\* when the learned coherence grows, also from below 0.3 (the min gate) to
\* 0.3 and above (the blend).
C35_EffMonotone ==
    (call.name = "effective_coherence" /\ call.ret # Pending) =>
        call.ret.v[1] <= call.ret.v[2]

\* one accumulator just under the switch, the other on it, instant above both
C35_Witness ==
    /\ call.name = "effective_coherence"
    /\ call.args = <<Cent(30) - 1, Cent(30), Cent(80)>>
    /\ call.ret = Value(<<Cent(30) - 1, Cent(45)>>)

---------------------------------------------------------------------------
(* The classifier fed its own result under one constant input (SpecSteady) *)

\* the next tick, with the input of the tick before
SteadyTick(effective_coh, instant) ==
    /\ Len(ticks) < MaxTicks
    /\ call.name = "classify_phase" =>
           /\ effective_coh = call.args[1]
           /\ instant = call.args[2]
    /\ phase' = classify_phase(effective_coh, instant, phase)
    /\ ticks' = Append(ticks, phase')
    /\ call' = [name |-> "classify_phase",
                args |-> <<effective_coh, instant, phase>>,
                ret |-> phase']
    /\ UNCHANGED <<accVars, fieldVars, runVars, saveVars, argVars, ollamaVars,
                   tm_hour, decay_recovery, journey_message, writers>>

NextSteady ==
    \E effective_coh \in CoherenceTicks, instant \in InstantTicks :
        SteadyTick(effective_coh, instant)

SpecSteady == InitClassify /\ [][NextSteady]_vars

\* C36: under any constant pair (effective_coherence, instant) and from any
\* starting phase, the phase is the same from the second tick on: there is
\* no cycle through two or more phases.
C36_SettlesInTwoTicks ==
    /\ \A n \in 2..Len(ticks) : ticks[n] = ticks[2]
    /\ Len(ticks) >= 2 =>
           classify_phase(call.args[1], call.args[2], phase) = phase

\* two ticks were needed: from QuietlyBeloved down to ShyObserver
C36_Witness ==
    /\ ticks = <<"BuildingTrust", "ShyObserver", "ShyObserver", "ShyObserver">>
    /\ call.args = <<Cent(10), Cent(50), "ShyObserver">>

---------------------------------------------------------------------------
(* The classifier under rising coherence and a calm instant (SpecRise) *)

InitRise ==
    /\ phase = "ShyObserver"
    /\ call = NoCall
    /\ AccIdle
    /\ FieldIdle
    /\ RunIdle
    /\ SaveIdle
    /\ OllamaIdle
    /\ DriverIdle

\* a tick whose coherence is not below that of the tick before and whose
\* instant is at least 0.30
RiseTick(effective_coh, instant) ==
    /\ instant >= Cent(30)
    /\ call.name = "classify_phase" => effective_coh >= call.args[1]
    /\ Classify(effective_coh, instant)

NextRise ==
    \E effective_coh \in CoherenceTicks \cup CoherenceGrid, instant \in InstantTicks :
        RiseTick(effective_coh, instant)

SpecRise == InitRise /\ [][NextRise]_vars

\* the order ShyObserver < BuildingTrust < QuietlyBeloved
PhaseRank == ("ShyObserver" :> 0) @@ ("BuildingTrust" :> 1) @@ ("QuietlyBeloved" :> 2)

\* C37: from ShyObserver, while the effective coherence never falls and the
\* instant is at least 0.30, the phase never steps back in the order
\* ShyObserver < BuildingTrust < QuietlyBeloved and is never
\* ProtectiveGuardian or StartledRetreat.
C37_NoStepBack ==
    /\ [](phase \in DOMAIN PhaseRank)
    /\ [][PhaseRank[phase'] >= PhaseRank[phase]]_vars

\* QuietlyBeloved reached with the instant on the guardian threshold
C37_Witness ==
    /\ phase = "QuietlyBeloved"
    /\ call.name = "classify_phase"
    /\ call.args = <<Cent(55), Cent(30), "BuildingTrust">>

---------------------------------------------------------------------------
(* The hashes of all valid fingerprints *)

\* context_hash, tabulated over the keys __post_init__ accepts
key_hashes == [k \in Keys |-> context_hash(k)]

\* the hashes the valid keys have
KeyHashes == {key_hashes[k] : k \in Keys}

\* C38: context_hash is injective on the 64*3*4*4*3 valid fingerprints: there
\* are as many hashes as keys, so no two keys that differ in a field share a
\* hash (nor, with it, an accumulator).
C38_HashInjective ==
    call.name = "context_hash" =>
        /\ call.ret = key_hashes[call.args]
        /\ Cardinality(KeyHashes) = Cardinality(Keys)
        /\ Cardinality(Keys) = 64 * 3 * 4 * 4 * 3

\* the last of the valid keys has been hashed
C38_Witness ==
    /\ call.name = "context_hash"
    /\ call.args = <<63, 2, 3, 3, 2>>
    /\ call.ret \in KeyHashes
    /\ call.ret # key_hashes[<<62, 2, 3, 3, 2>>]

---------------------------------------------------------------------------
(* TextContextKey: feature_vector, cosine_similarity, nearest_contexts *)

\* Exact products of the integers the similarity is made of, which pass
\* 2^31: a natural number is the sequence of its digits to the base
\* 1000, least significant first, without leading zeros.

RECURSIVE big_times(_, _, _, _)
big_times(digits, m, i, carry) ==
    IF i > Len(digits)
    THEN IF carry = 0 THEN <<>>
         ELSE <<carry % 1000>> \o big_times(digits, m, i, carry \div 1000)
    ELSE LET p == CHOOSE x \in {digits[i] * m + carry} : TRUE
         IN  <<p % 1000>> \o big_times(digits, m, i + 1, p \div 1000)

\* the product of the factors, each a natural number below 2^21
RECURSIVE big_product(_)
big_product(factors) ==
    IF factors = <<>> THEN <<1>>
    ELSE IF Head(factors) = 0 THEN <<>>
    ELSE LET rest == CHOOSE x \in {big_product(Tail(factors))} : TRUE
         IN  big_times(rest, Head(factors), 1, 0)

\* m <= n for two such numbers
big_leq(m, n) ==
    \/ Len(m) < Len(n)
    \/ /\ Len(m) = Len(n)
       /\ \/ m = n
          \/ \E i \in 1..Len(m) :
                /\ m[i] < n[i]
                /\ \A j \in (i + 1)..Len(m) : m[j] = n[j]

\* TextContextKey.feature_vector: [topic/63.0, depth/2.0, register/3.0,
\* time/3.0, phase/2.0], every component in units of 1/126
FeatureUnit == 126

feature_vector(key) ==
    <<key[1] * (FeatureUnit \div 63), key[2] * (FeatureUnit \div 2),
      key[3] * (FeatureUnit \div 3), key[4] * (FeatureUnit \div 3),
      key[5] * (FeatureUnit \div 2)>>

\* sum(x * y for x, y in zip(a, b))
RECURSIVE vector_dot(_, _)
vector_dot(a, b) ==
    IF a = <<>> THEN 0 ELSE Head(a) * Head(b) + vector_dot(Tail(a), Tail(b))

\* A similarity is the real number dot / sqrt(norm_a2 * norm_b2), kept as
\* the three integers it is computed from (in units of 1/126^2); the
\* float 0.0 of the degenerate branch is SimZero.
SimZero == [dot |-> 0, norm_a2 |-> 1, norm_b2 |-> 1]

\* s < t, both being non-negative: s.dot^2 * t.norm^2 < t.dot^2 * s.norm^2
sim_less(s, t) ==
    ~big_leq(big_product(<<t.dot, t.dot, s.norm_a2, s.norm_b2>>),
             big_product(<<s.dot, s.dot, t.norm_a2, t.norm_b2>>))

\* |s - 1.0| <= 1e-9: s <= 1 by Cauchy-Schwarz, and
\* (10^9 - 1)^2 * norm^2 <= 10^18 * dot^2, with 10^9 - 1 = 81 * 37 * 333667
sim_is_one(s) ==
    /\ big_leq(big_product(<<s.dot, s.dot>>),
               big_product(<<s.norm_a2, s.norm_b2>>))
    /\ big_leq(big_product(<<81, 37, 333667, 81, 37, 333667,
                             s.norm_a2, s.norm_b2>>),
               big_product(<<1000, 1000, 1000, 1000, 1000, 1000,
                             s.dot, s.dot>>))

\* s = 0.0
sim_is_zero(s) == s.dot = 0

\* the similarity with the division by norm_b left out
cosine_similarity_half_normalised(key, other) ==
    LET a == feature_vector(key)
        b == feature_vector(other)
    IN  IF vector_dot(a, a) = 0 \/ vector_dot(b, b) = 0 THEN SimZero
        ELSE [dot |-> vector_dot(a, b), norm_a2 |-> vector_dot(a, a),
              norm_b2 |-> FeatureUnit * FeatureUnit]

\* TextContextKey.cosine_similarity: a norm below 1e-9 is a norm of 0, the
\* smallest other norm being 1/63
cosine_similarity(key, other) ==
    LET a == feature_vector(key)
        b == feature_vector(other)
    IN  IF vector_dot(a, a) = 0 \/ vector_dot(b, b) = 0 THEN SimZero
        ELSE [dot |-> vector_dot(a, b), norm_a2 |-> vector_dot(a, a),
              norm_b2 |-> vector_dot(b, b)]

\* the keys the similarity of a key is taken to, besides the key itself
SimKeys ==
    {<<0, 0, 0, 0, 0>>, <<1, 1, 0, 0, 0>>, <<2, 2, 0, 0, 0>>,
     <<10, 1, 1, 0, 0>>, <<0, 0, 3, 3, 0>>, <<63, 2, 3, 3, 2>>}

\* two frozen keys have been constructed from fields in range
InitCosine ==
    /\ call \in {[name |-> "TextContextKey", args |-> <<key, other>>,
                  ret |-> Pending] :
                    key \in Keys, other \in SimKeys} \cup
                {[name |-> "TextContextKey", args |-> <<key, key>>,
                  ret |-> Pending] : key \in Keys}
    /\ AccIdle
    /\ FieldIdle
    /\ PhaseIdle
    /\ RunIdle
    /\ SaveIdle
    /\ OllamaIdle
    /\ DriverIdle

\* key.cosine_similarity(other)
CosineSimilarity ==
    /\ call.name = "TextContextKey"
    /\ call' = [name |-> "cosine_similarity", args |-> call.args,
                ret |-> Value(cosine_similarity(call.args[1], call.args[2]))]
    /\ UNCHANGED <<accVars, fieldVars, phaseVars, runVars, saveVars, argVars,
                 ollamaVars, driverVars>>

NextCosine == CosineSimilarity

SpecCosine == InitCosine /\ [][NextCosine]_vars

\* C32 as stated: for every valid fingerprint k, cosine_similarity(k, k)
\* is 1.0 within 1e-9.
C32_SelfSimilarityIsOne ==
    (call.name = "cosine_similarity" /\ call.args[1] = call.args[2]) =>
        sim_is_one(call.ret.v)

\* C32: for every valid fingerprint k other than the all-zero one,
\* cosine_similarity(k, k) is 1.0 within 1e-9; for the all-zero key, whose
\* feature vector has norm 0, it is 0.0.
C32_SelfSimilarityIsOneOrZeroKey ==
    (call.name = "cosine_similarity" /\ call.args[1] = call.args[2]) =>
        /\ call.ret.exc = "none"
        /\ call.args[1] # <<0, 0, 0, 0, 0>> => sim_is_one(call.ret.v)
        /\ call.args[1] = <<0, 0, 0, 0, 0>> => sim_is_zero(call.ret.v)

\* the similarity of the last valid key to itself has been computed
C32_Witness ==
    /\ call.name = "cosine_similarity"
    /\ call.args = <<(<<63, 2, 3, 3, 2>>), (<<63, 2, 3, 3, 2>>)>>
    /\ call.ret = Value([dot |-> 79380, norm_a2 |-> 79380, norm_b2 |-> 79380])

\* scored[:k]
py_slice_to(seq, k) ==
    IF k >= 0 THEN SubSeq(seq, 1, Min(k, Len(seq)))
    ELSE SubSeq(seq, 1, Max(Len(seq) + k, 0))

\* a pair put before the entries of its own similarity
insert_before_ties(sorted, pair) ==
    LET pos == Cardinality({i \in 1..Len(sorted) :
                               sim_less(pair[2], sorted[i][2])})
    IN  SubSeq(sorted, 1, pos) \o <<pair>> \o
        SubSeq(sorted, pos + 1, Len(sorted))

RECURSIVE sort_reverse_ties_reversed(_, _)
sort_reverse_ties_reversed(scored, n) ==
    IF n = 0 THEN <<>>
    ELSE LET done == CHOOSE x \in {sort_reverse_ties_reversed(scored, n - 1)} : TRUE
         IN  insert_before_ties(done, scored[n])

\* nearest_contexts with a sort that puts later equals first
nearest_contexts_ties_reversed(candidate, known, k) ==
    IF known = <<>> THEN <<>>
    ELSE LET scored == [i \in 1..Len(known) |->
                           <<known[i], cosine_similarity(candidate, known[i])>>]
         IN  py_slice_to(sort_reverse_ties_reversed(scored, Len(scored)), k)

\* one step of the stable sort: the pair goes behind every entry whose
\* similarity is not below its own
insert_after_ties(sorted, pair) ==
    LET pos == Cardinality({i \in 1..Len(sorted) :
                               ~sim_less(sorted[i][2], pair[2])})
    IN  SubSeq(sorted, 1, pos) \o <<pair>> \o
        SubSeq(sorted, pos + 1, Len(sorted))

\* scored.sort(key=lambda pair: pair[1], reverse=True) on the first n
\* entries: list.sort is stable, also with reverse=True
RECURSIVE sort_reverse(_, _)
sort_reverse(scored, n) ==
    IF n = 0 THEN <<>>
    ELSE LET done == CHOOSE x \in {sort_reverse(scored, n - 1)} : TRUE
         IN  insert_after_ties(done, scored[n])

\* TextContextKey.nearest_contexts
nearest_contexts(candidate, known, k) ==
    IF known = <<>> THEN <<>>
    ELSE LET scored == [i \in 1..Len(known) |->
                           <<known[i], cosine_similarity(candidate, known[i])>>]
         IN  py_slice_to(sort_reverse(scored, Len(scored)), k)

\* the known lists: up to MaxKnown keys, repetitions included
KnownLists == UNION {[1..n -> SimKeys] : n \in 0..MaxKnown}

\* a candidate, a list of known keys and k have been chosen
InitNearest ==
    /\ call \in {[name |-> "TextContextKey", args |-> <<candidate, known, k>>,
                  ret |-> Pending] :
                    candidate \in SimKeys, known \in KnownLists,
                    k \in (-1)..(MaxKnown + 1)}
    /\ AccIdle
    /\ FieldIdle
    /\ PhaseIdle
    /\ RunIdle
    /\ SaveIdle
    /\ OllamaIdle
    /\ DriverIdle

\* TextContextKey.nearest_contexts(candidate, known, k)
NearestContexts ==
    /\ call.name = "TextContextKey"
    /\ call' = [name |-> "nearest_contexts", args |-> call.args,
                ret |-> Value(nearest_contexts(call.args[1], call.args[2],
                                               call.args[3]))]
    /\ UNCHANGED <<accVars, fieldVars, phaseVars, runVars, saveVars, argVars,
                 ollamaVars, driverVars>>

NextNearest == NearestContexts

SpecNearest == InitNearest /\ [][NextNearest]_vars

\* C33: nearest_contexts(candidate, known, k) with k >= 0 returns without
\* raising exactly min(k, len(known)) pairs (none for an empty known list,
\* all of them when k exceeds its size); the pairs are distinct entries of
\* known, each with its cosine similarity to candidate, in descending order
\* of similarity, entries of equal similarity in their input order; and no
\* entry left out would have to stand before the last one returned.
C33_NearestContexts ==
    (call.name = "nearest_contexts" /\ call.args[3] >= 0) =>
        LET known == call.args[2]
            got == call.ret.v
        IN  /\ call.ret.exc = "none"
            /\ Len(got) = Min(call.args[3], Len(known))
            /\ known = <<>> => got = <<>>
            /\ \E idx \in [1..Len(got) -> 1..Len(known)] :
                  /\ \A i, j \in 1..Len(got) : idx[i] = idx[j] => i = j
                  /\ \A i \in 1..Len(got) :
                        got[i] = <<known[idx[i]],
                                   cosine_similarity(call.args[1],
                                                     known[idx[i]])>>
                  /\ \A i \in 1..(Len(got) - 1) :
                        /\ ~sim_less(got[i][2], got[i + 1][2])
                        /\ ~sim_less(got[i + 1][2], got[i][2])
                              => idx[i] < idx[i + 1]
                  /\ \A m \in 1..Len(known) :
                        (got # <<>> /\ \A i \in 1..Len(got) : idx[i] # m) =>
                            LET sim == cosine_similarity(call.args[1], known[m])
                                low == got[Len(got)][2]
                            IN  /\ ~sim_less(low, sim)
                                /\ ~sim_less(sim, low) => idx[Len(got)] < m

\* k beyond the list: all three entries come back, the candidate's own key
\* first, and the two keys of equal similarity in their input order
C33_Witness ==
    /\ call.name = "nearest_contexts"
    /\ call.args = <<(<<10, 1, 1, 0, 0>>),
                     <<(<<1, 1, 0, 0, 0>>), (<<10, 1, 1, 0, 0>>),
                       (<<2, 2, 0, 0, 0>>)>>, 4>>
    /\ Len(call.ret.v) = 3
    /\ call.ret.v[1][1] = <<10, 1, 1, 0, 0>>
    /\ call.ret.v[2][1] = <<1, 1, 0, 0, 0>>
    /\ call.ret.v[3][1] = <<2, 2, 0, 0, 0>>
    /\ ~sim_less(call.ret.v[3][2], call.ret.v[2][2])
    /\ sim_less(call.ret.v[2][2], call.ret.v[1][2])

---------------------------------------------------------------------------
(* CcfOllama.save and CcfOllama.load (SpecOllamaSave) *)

\* bool(x) of a value json.load returned
py_truthy(x) ==
    CASE x.t = "null" -> FALSE
      [] x.t \in {"int", "float"} -> x.v # 0
      [] x.t = "inf" -> TRUE
      [] x.t = "str" -> x.v # ""
      [] x.t = "list" -> x.v # <<>>
      [] x.t = "dict" -> DOMAIN x.v # {}

\* SocialPhase(value)
py_SocialPhase(x) ==
    IF x.t = "str" /\ x.v \in Phases THEN Value(x.v) ELSE Throws("ValueError")

\* int(ctx_data[name])
int_item(ctx_data, name) ==
    LET item == subscript(ctx_data, name)
    IN  IF item.exc # "none" THEN item ELSE py_int(item.v)

\* TextContextKey(topic_domain=int(ctx_data["topic_domain"]), ...)
load_active_context(ctx_data) ==
    LET ints == [i \in 1..5 |-> int_item(ctx_data, KeyFields[i])]
    IN  IF \E i \in 1..5 : ints[i].exc # "none"
        THEN Throws((ints[CHOOSE i \in 1..5 : ints[i].exc # "none"]).exc)
        ELSE TextContextKey([i \in 1..5 |-> ints[i].v])

\* CoherenceFieldPy.from_dict(data), the accumulators over the hashes of the
\* model; the constructor rejects a personality outside [0, 1]
CoherenceFieldPy_from_dict(data) ==
    LET curiosity == py_float(dict_get(data, "curiosity_drive", JFloat(Cent(50))))
        recovery == py_float(dict_get(data, "recovery_rate", JFloat(Cent(50))))
        items == dict_get(data, "accumulators", JObj(EmptyDict))
    IN  IF curiosity.exc # "none" THEN curiosity
        ELSE IF recovery.exc # "none" THEN recovery
        ELSE IF ~(0 <= curiosity.v /\ curiosity.v <= ONE) THEN Throws("ValueError")
        ELSE IF ~(0 <= recovery.v /\ recovery.v <= ONE) THEN Throws("ValueError")
        ELSE Value([curiosity_drive |-> curiosity.v,
                    recovery_rate |-> recovery.v,
                    accumulators |->
                        [h \in ChatHashes |->
                            IF \E s \in DOMAIN items.v : py_int_of_key(s).v = h
                            THEN from_dict(items.v[py_str_of_hash(h)])
                            ELSE NoAcc]])

\* cls(model=model, state_file=state_file): the instance load returns when
\* anything raised
FreshOllama ==
    [phase |-> "ShyObserver", turn_count |-> 0, active_context |-> NoContext,
     curiosity_drive |-> Cent(50), recovery_rate |-> Cent(50),
     accumulators |-> [h \in ChatHashes |-> NoAcc]]

\* CcfOllama.load(state_file) of a file that holds `content`, open() and
\* json.load ending as `disk` says: the private fields of the instance
CcfOllama_load(content, disk) ==
    IF disk # "ok" \/ content[1] # "ollama" THEN FreshOllama
    ELSE LET st == content[2]
             social_phase == py_SocialPhase(dict_get(st, "phase", JStr("ShyObserver")))
             turn_count == py_int(dict_get(st, "turn_count", JInt(0)))
             field == IF py_truthy(dict_get(st, "field", JNull))
                      THEN CoherenceFieldPy_from_dict(st.v["field"])
                      ELSE Value([curiosity_drive |-> Cent(50),
                                  recovery_rate |-> Cent(50),
                                  accumulators |-> [h \in ChatHashes |-> NoAcc]])
             ctx_data == dict_get(st, "active_context", JNull)
             context == IF ctx_data.t = "null" THEN Value(NoContext)
                        ELSE load_active_context(ctx_data)
         IN  IF \/ social_phase.exc # "none"
                \/ turn_count.exc # "none"
                \/ field.exc # "none"
                \/ context.exc # "none"
             THEN FreshOllama
             ELSE [phase |-> social_phase.v, turn_count |-> turn_count.v,
                   active_context |-> context.v,
                   curiosity_drive |-> field.v.curiosity_drive,
                   recovery_rate |-> field.v.recovery_rate,
                   accumulators |-> field.v.accumulators]

\* CcfOllama.save(), the write and the rename succeeding or one of them
\* raising as `disk` says; the temporary file is unlinked before the raise
OllamaSave(disk) ==
    /\ call' = [name |-> "save", args |-> <<disk>>,
                ret |-> IF disk = "ok" THEN Value(0) ELSE Throws(disk)]
    /\ files' = IF disk = "ok"
                THEN [files EXCEPT ![Dest] =
                        <<"ollama", state_dict(phase, _turn_count, accumulators,
                                               curiosity_drive, recovery_rate,
                                               active_context)>>]
                ELSE files
    /\ UNCHANGED <<accVars, fieldVars, phaseVars, runVars, argVars, ollamaVars,
                   driverVars, pc, state, tmp_path, exc, before>>

\* CcfOllama.load(state_file), which builds a second instance
OllamaLoad(disk) ==
    /\ call' = [name |-> "load", args |-> <<Dest, disk>>,
                ret |-> Value(CcfOllama_load(files[Dest], disk))]
    /\ UNCHANGED <<accVars, fieldVars, phaseVars, runVars, saveVars, argVars,
                   ollamaVars, driverVars>>

NextOllamaSave ==
    \/ \E i \in ChatInstants : Chat(JStr({"hello"}), NoContext, i, "ok")
    \/ \E k \in ExplicitKeys, b \in BackendOutcomes : Chat(JStr({"hello"}), k, ONE, b)
    \/ \E positive \in BOOLEAN, disk \in {"ok", "OSError"} : RecordOutcome(positive, disk)
    \/ \E disk \in {"ok", "OSError"} : OllamaSave(disk)
    \/ \E disk \in {"ok", "OSError"} : OllamaLoad(disk)

SpecOllamaSave == InitChat /\ [][NextOllamaSave]_vars

\* C31: for any CcfOllama state reached by chat and record_outcome calls, a
\* save() that returns followed by a CcfOllama.load(state_file) that reads
\* the file yields an instance with the same social phase, turn counter,
\* active context and personality parameters and, for every context hash,
\* an accumulator exactly if the saved instance has one, with the same
\* coherence, earned_floor and interaction_count.
C31_SaveLoadRoundTrip ==
    [][(/\ call.name = "save"
        /\ call.ret.exc = "none"
        /\ call'.name = "load"
        /\ call'.args = <<Dest, "ok">>) =>
           /\ call'.ret.v.phase = phase
           /\ call'.ret.v.turn_count = _turn_count
           /\ call'.ret.v.active_context = active_context
           /\ call'.ret.v.curiosity_drive = curiosity_drive
           /\ call'.ret.v.recovery_rate = recovery_rate
           /\ \A h \in ChatHashes :
                 IF accumulators[h] = NoAcc
                 THEN call'.ret.v.accumulators[h] = NoAcc
                 ELSE /\ call'.ret.v.accumulators[h] # NoAcc
                      /\ call'.ret.v.accumulators[h].coherence
                            = accumulators[h].coherence
                      /\ call'.ret.v.accumulators[h].earned_floor
                            = accumulators[h].earned_floor
                      /\ call'.ret.v.accumulators[h].interaction_count
                            = accumulators[h].interaction_count]_vars

\* an instance that has left ShyObserver with three outcomes recorded was
\* saved by hand and loaded back
C31_Witness ==
    /\ call.name = "load"
    /\ call.args = <<Dest, "ok">>
    /\ ~auto_save
    /\ files[Dest] = <<"ollama", state_dict(phase, _turn_count, accumulators,
                                            curiosity_drive, recovery_rate,
                                            active_context)>>
    /\ phase # "ShyObserver"
    /\ call.ret.v.phase = phase
    /\ curiosity_drive = ONE
    /\ call.ret.v.curiosity_drive = ONE
    /\ active_context # NoContext
    /\ \E h \in ChatHashes :
          /\ accumulators[h] # NoAcc
          /\ accumulators[h].interaction_count = 3
          /\ call.ret.v.accumulators[h] = accumulators[h]

---------------------------------------------------------------------------
(* Two CcfPersistence.save calls on one destination at once (SpecRace) *)

\* the two processes that call save
Writers == {"first", "second"}

\* what a step of one of the two calls leaves alone
raceOthers ==
    <<accVars, fieldVars, phaseVars, runVars, argVars, ollamaVars, tm_hour,
      decay_recovery, journey_message, ticks, call, pc, state, tmp_path, exc,
      before>>

\* neither process has called save yet
NotCalled == [pc |-> "idle", state |-> 0, tmp_path |-> "none", exc |-> "none"]

\* a directory that holds no state file yet, or a complete earlier snapshot
InitRace ==
    /\ files \in {[n \in Names |-> IF n = Dest THEN c ELSE Absent] :
                     c \in {Absent} \cup {Doc(s) : s \in Snapshots}}
    /\ before = files[Dest]
    /\ pc = "idle"
    /\ state = 0
    /\ tmp_path = "none"
    /\ exc = "none"
    /\ ArgIdle
    /\ call = NoCall
    /\ AccIdle
    /\ FieldIdle
    /\ PhaseIdle
    /\ RunIdle
    /\ OllamaIdle
    /\ tm_hour = 12
    /\ decay_recovery = NoRepeat
    /\ journey_message = [t |-> "null"]
    /\ ticks = <<>>
    /\ writers = [w \in Writers |-> NotCalled]

\* process w calls save(accumulators, personality, path) and builds its state
RaceSaveCall(w, s) ==
    /\ writers[w].pc = "idle"
    /\ writers' = [writers EXCEPT ![w].pc = "mkstemp", ![w].state = s]
    /\ UNCHANGED <<files, raceOthers>>

\* a name generator that does not create the file exclusively: it may hand
\* out a name that is in use, and opening it truncates the file
RaceMkstemp_not_exclusive(w, t) ==
    /\ writers[w].pc = "mkstemp"
    /\ files' = [files EXCEPT ![t] = <<>>]
    /\ writers' = [writers EXCEPT ![w].pc = "write", ![w].tmp_path = t]
    /\ UNCHANGED raceOthers

\* fd, tmp_path = tempfile.mkstemp(dir=path.parent, suffix=".ccf.tmp") in
\* process w: the file is created with O_EXCL, under a name no file has
RaceMkstemp(w, t) ==
    /\ writers[w].pc = "mkstemp"
    /\ files[t] = Absent
    /\ files' = [files EXCEPT ![t] = <<>>]
    /\ writers' = [writers EXCEPT ![w].pc = "write", ![w].tmp_path = t]
    /\ UNCHANGED raceOthers

\* mkstemp raises OSError in process w
RaceMkstempFails(w) ==
    /\ writers[w].pc = "mkstemp"
    /\ writers' = [writers EXCEPT ![w].pc = "raised", ![w].exc = "mkstemp"]
    /\ UNCHANGED <<files, raceOthers>>

\* json.dump(state, f) in process w: the next chunk reaches its file
RaceWrite(w) ==
    /\ writers[w].pc = "write"
    /\ \E n \in {Len(files[writers[w].tmp_path]) + 1} :
          /\ files' = [files EXCEPT ![writers[w].tmp_path] =
                          Append(@, Doc(writers[w].state)[n])]
          /\ writers' = [writers EXCEPT
                            ![w].pc = IF n = Chunks THEN "replace" ELSE "write"]
    /\ UNCHANGED raceOthers

\* a write raises OSError in process w
RaceWriteFails(w) ==
    /\ writers[w].pc = "write"
    /\ writers' = [writers EXCEPT ![w].pc = "except", ![w].exc = "write"]
    /\ UNCHANGED <<files, raceOthers>>

\* os.replace(tmp_path, path) in process w
RaceReplace(w) ==
    /\ writers[w].pc = "replace"
    /\ files' = [files EXCEPT ![Dest] = files[writers[w].tmp_path],
                              ![writers[w].tmp_path] = Absent]
    /\ writers' = [writers EXCEPT ![w].pc = "returned"]
    /\ UNCHANGED raceOthers

\* os.replace raises OSError in process w
RaceReplaceFails(w) ==
    /\ writers[w].pc = "replace"
    /\ writers' = [writers EXCEPT ![w].pc = "except", ![w].exc = "replace"]
    /\ UNCHANGED <<files, raceOthers>>

\* except Exception: os.unlink(tmp_path); raise, in process w
RaceCleanup(w) ==
    /\ writers[w].pc = "except"
    /\ files' = [files EXCEPT ![writers[w].tmp_path] = Absent]
    /\ writers' = [writers EXCEPT ![w].pc = "raised"]
    /\ UNCHANGED raceOthers

NextRace ==
    \/ \E w \in Writers, s \in Snapshots : RaceSaveCall(w, s)
    \/ \E w \in Writers, t \in TmpNames : RaceMkstemp(w, t)
    \/ \E w \in Writers : RaceMkstempFails(w)
    \/ \E w \in Writers : RaceWrite(w)
    \/ \E w \in Writers : RaceWriteFails(w)
    \/ \E w \in Writers : RaceReplace(w)
    \/ \E w \in Writers : RaceReplaceFails(w)
    \/ \E w \in Writers : RaceCleanup(w)

SpecRace == InitRace /\ [][NextRace]_vars

\* the processes whose temporary file exists
Writing == {w \in Writers : writers[w].pc \in {"write", "replace", "except"}}

\* the processes whose save has ended, and those whose save returned
HaveFinished == {w \in Writers : writers[w].pc \in {"returned", "raised"}}
HaveReturned == {w \in Writers : writers[w].pc = "returned"}

===========================================================================
